---- MODULE Spec2Model ----
(***************************************************************************)
(* Collision source parsing of the sm64-tri-parser viewer.                 *)
(*                                                                         *)
(* A source text is a sequence of lines (what String.split('\n') yields).  *)
(* A line is a record [dir, toks]:                                         *)
(*   dir   the text the trimmed line starts with when it starts with '#'   *)
(*         ("#ifdef VERSION_JP", "#ifndef VERSION_JP", "#ifdef OTHER",     *)
(*         "#else", "#endif", "#include"), "" for any other line;          *)
(*   toks  the macro statements on the line, left to right, rendered one   *)
(*         after the other separated by a blank:                           *)
(*         COL_VERTEX(a, b, c), COL_TRI_INIT(s, 0), COL_TRI(a, b, c).      *)
(* Numbers are kept as written: a literal is [neg, digits], the optional   *)
(* minus sign and the decimal digits matched by the pattern -?\d+.         *)
(***************************************************************************)
EXTENDS Integers, Sequences, FiniteSets, TLC

\* ------------------------------------------------------------------ bounds
MaxLines == 4
MaxPreLines == 5
MaxLevelLines == 5
MaxScriptLines == 2
MaxObjects == 2
MaxGeoTris == 2
MaxUlps == 2
MaxWraps == 4
MaxLoads == 2
MaxTimers == 2
MaxMouseEvents == 3
MaxRetries == 4
MaxListCalls == 3
MaxUploads == 1

\* ------------------------------------------------------- number literals
Lit(n, ds) == [neg |-> n, digits |-> ds]

RECURSIVE DigitsValue(_)
DigitsValue(ds) ==
    IF ds = <<>> THEN 0
    ELSE 10 * DigitsValue(SubSeq(ds, 1, Len(ds) - 1)) + ds[Len(ds)]

\* parseInt on a string matched by -?\d+
ParseInt(lit) == IF lit.neg THEN 0 - DigitsValue(lit.digits) ELSE DigitsValue(lit.digits)

\* ------------------------------------------------------------- statements
NoLit == Lit(FALSE, <<>>)
Vertex(a, b, c) == [k |-> "COL_VERTEX", s |-> "", a |-> a, b |-> b, c |-> c]
TriInit(s) == [k |-> "COL_TRI_INIT", s |-> s, a |-> NoLit, b |-> NoLit, c |-> NoLit]
Tri(a, b, c) == [k |-> "COL_TRI", s |-> "", a |-> a, b |-> b, c |-> c]

N(d) == Lit(FALSE, <<d>>)

Text(toks) == [dir |-> "", toks |-> toks]
Directive(d) == [dir |-> d, toks |-> <<>>]
EmptyLine == Text(<<>>)

\* Lines of collision statements, one or several statements per line.
StmtLines ==
    { Text(<<Vertex(N(1), N(1), N(1))>>),
      Text(<<Vertex(N(2), N(2), N(2)), Vertex(Lit(TRUE, <<3>>), Lit(FALSE, <<0, 4>>), N(5))>>),
      Text(<<TriInit("SURFACE_BURNING")>>),
      Text(<<TriInit("SURFACE_HANGABLE"), TriInit("SURFACE_SLIPPERY")>>),
      Text(<<Tri(N(0), N(0), N(0))>>),
      Text(<<Tri(N(0), N(1), N(2))>>),
      Text(<<Tri(N(1), N(0), N(1)), Tri(N(0), N(0), N(0))>>),
      Text(<<TriInit("SURFACE_SLIPPERY"), Tri(N(0), N(0), N(0))>>),
      EmptyLine }

\* Lines of a file with conditional blocks.
PreLines ==
    { Directive("#ifdef VERSION_JP"),
      Directive("#ifndef VERSION_JP"),
      Directive("#ifdef OTHER"),
      Directive("#else"),
      Directive("#endif"),
      Directive("#include"),
      Text(<<Vertex(N(1), N(1), N(1))>>),
      Text(<<Vertex(N(2), N(2), N(2))>>) }

\* Lines of a level file with one statement per line and VERSION_JP blocks.
LevelLines ==
    { Directive("#ifdef VERSION_JP"),
      Directive("#ifndef VERSION_JP"),
      Directive("#else"),
      Directive("#endif"),
      Text(<<Vertex(N(1), N(1), N(1))>>),
      Text(<<Vertex(N(2), N(2), N(2))>>),
      Text(<<Tri(N(0), N(0), N(0))>>) }

SeqsUpTo(S, n) == UNION { [1..m -> S] : m \in 1..n }

Versions == {"JP", "US"}

\* ------------------------------------------------------------------ state
VARIABLES
    entry,            \* the function that was called
    content,          \* its content argument, split into lines
    version,          \* its version / targetVersion argument
    pc,               \* position in the called function
    idx,              \* preprocessVersionDirectives: index of the next line
    processedLines,   \* preprocessVersionDirectives: processedLines
    insideIf,         \* preprocessVersionDirectives: insideIf
    ifCondition,      \* preprocessVersionDirectives: ifCondition
    skipBlock,        \* preprocessVersionDirectives: skipBlock
    ifDepth,          \* preprocessVersionDirectives: ifDepth
    processedContent, \* the text the parser scans, split into lines
    vertices,         \* parser: vertices
    triangles,        \* parser: triangles
    currentSurface,   \* parser: currentSurface
    lineIdx,          \* parser: index of the next line of the for loop
    result,           \* "none" while running, "ok" on return, "error" on throw
    viewerTriangles,  \* CollisionViewer.triangles
    mesh,             \* the level mesh: positions and triangleIndex attributes
    selected,         \* triangle found by the last handleTriangleSelection
    levelInfo,        \* loadLevelObjects: the levelInfo argument
    files,            \* the files loadFile can fetch, by path
    objectPositions,  \* loadLevelObjects: objectPositions
    objIdx,           \* loadLevelObjects: index of the next objectDef
    objects,          \* loadLevelObjects: objects
    info,             \* triangle info panel: normal and class shown
    geometryClasses,  \* geometry-type mesh: class each triangle is coloured by
    stats,            \* the geometry statistics shown by updateStats
    viewMode,         \* CollisionViewer.viewMode
    selectedVersion,  \* UIControls.selectedVersion: the version toggle
    fileSelect,       \* UIControls.fileSelect.value: the selected file, "" for none
    loads,            \* the loadLocalFile calls made, each with its position
    viewerData,       \* the file and version of the data the viewer holds
    meshBuilds,       \* number of createMesh calls made by loadCollisionData
    uploads,          \* the loads of FileHandler (file input, loadSpecificFile), each with its position
    isOrbiting,       \* MeshCreator.isOrbiting
    gesture,          \* TRUE between a 'start' event of the controls and its 'end'
    resetTimers,      \* number of pending setTimeout callbacks of 'end' events
    mouseLog,         \* the click, mousemove and touchend events so far, with what they did
    attempt,          \* fetchWithRetry: the loop variable i
    fetched,          \* number of fetch requests issued
    outcome,          \* what the awaited call resolved or rejected with
    collisionFiles,   \* LevelLoader.collisionFiles
    yamlLoads,        \* number of loadFromYAML calls
    listCalls,        \* the calls that asked for the list of files, with their results
    responses         \* fetchWithRetry: what each fetch so far ended with

ppVars == <<idx, processedLines, insideIf, ifCondition, skipBlock, ifDepth>>
parseVars == <<processedContent, vertices, triangles, currentSurface, lineIdx>>
viewVars == <<viewerTriangles, mesh, selected>>
objVars == <<levelInfo, files, objectPositions, objIdx, objects>>
geoVars == <<info, geometryClasses, stats, viewMode>>
orbitVars == <<isOrbiting, gesture, resetTimers, mouseLog>>
retryVars == <<attempt, fetched, outcome, responses>>
listVars == <<collisionFiles, yamlLoads, listCalls>>
netVars == <<retryVars, listVars>>
uiVars == <<selectedVersion, fileSelect, loads, viewerData, meshBuilds, uploads, orbitVars,
           netVars>>
vars == <<entry, content, version, pc, ppVars, parseVars, result, viewVars, objVars, geoVars,
         uiVars>>

NoMesh == [positions |-> <<>>, triangleIndex |-> <<>>]
NoTriangle == [surface_type |-> "", vertex1 |-> <<>>, vertex2 |-> <<>>, vertex3 |-> <<>>]
NoLevel == [levelName |-> "", areaNumber |-> "", objects |-> <<>>]
NoInfo == [normal |-> <<>>, geometryType |-> ""]
NoStats == [floor |-> 0, wall |-> 0, ceiling |-> 0]
NoData == [file |-> "", version |-> ""]
NoOutcome == [state |-> "pending", value |-> ""]

\* the page before any file is chosen: the toggle shows US
InitUi ==
    /\ selectedVersion = "US"
    /\ fileSelect = ""
    /\ loads = <<>>
    /\ viewerData = NoData
    /\ meshBuilds = 0
    /\ uploads = <<>>
    /\ isOrbiting = FALSE
    /\ gesture = FALSE
    /\ resetTimers = 0
    /\ mouseLog = <<>>
    /\ attempt = 0
    /\ fetched = 0
    /\ outcome = NoOutcome
    /\ collisionFiles = <<>>
    /\ yamlLoads = 0
    /\ listCalls = <<>>
    /\ responses = <<>>

InitLocals ==
    /\ pc = "start"
    /\ idx = 1
    /\ processedLines = <<>>
    /\ insideIf = FALSE
    /\ ifCondition = ""
    /\ skipBlock = FALSE
    /\ ifDepth = 0
    /\ processedContent = <<>>
    /\ vertices = <<>>
    /\ triangles = <<>>
    /\ currentSurface = ""
    /\ lineIdx = 1
    /\ result = "none"
    /\ viewerTriangles = <<>>
    /\ mesh = NoMesh
    /\ selected = NoTriangle
    /\ levelInfo = NoLevel
    /\ files = <<>>
    /\ objectPositions = <<>>
    /\ objIdx = 0
    /\ objects = <<>>
    /\ info = NoInfo
    /\ geometryClasses = <<>>
    /\ stats = NoStats
    /\ viewMode = "surface"
    /\ InitUi

\* A parse entry point is called on a file of collision statements.
Init ==
    /\ entry \in {"FileHandler", "CollisionFileManager", "LevelLoader"}
    /\ content \in SeqsUpTo(StmtLines, MaxLines)
    /\ version \in Versions
    /\ InitLocals

\* The preprocessor, or the object parser that calls it, is called on a file
\* with conditional blocks.
InitPre ==
    /\ entry \in {"Preprocess", "LevelLoader"}
    /\ content \in SeqsUpTo(PreLines, MaxPreLines)
    /\ version \in Versions
    /\ InitLocals

\* UIControls.loadLocalFile has downloaded a level file; version is the value
\* of the version toggle.
InitLevel ==
    /\ entry = "FileHandler"
    /\ content \in SeqsUpTo(LevelLines, MaxLevelLines)
    /\ version \in Versions
    /\ InitLocals

\* --------------------------------------------------------- preprocessing
StartsWith(trimmed, prefix) ==
    CASE prefix = "#ifdef VERSION_JP" -> trimmed = "#ifdef VERSION_JP"
      [] prefix = "#ifndef VERSION_JP" -> trimmed = "#ifndef VERSION_JP"
      [] prefix = "#ifdef" -> trimmed \in {"#ifdef VERSION_JP", "#ifdef OTHER"}
      [] prefix = "#ifndef" -> trimmed \in {"#ifndef VERSION_JP"}
      [] prefix = "#else" -> trimmed = "#else"
      [] prefix = "#endif" -> trimmed = "#endif"
      [] prefix = "#" -> trimmed # ""

\* the test widened to any line that starts with '#'
HasVersionsAnyHash(c) ==
    \E i \in 1..Len(c) : c[i].dir # ""

\* content.includes('#ifdef VERSION_JP') || content.includes('#ifndef VERSION_JP')
HasVersions(c) ==
    \E i \in 1..Len(c) : c[i].dir \in {"#ifdef VERSION_JP", "#ifndef VERSION_JP"}

\* loadLocalFile: the version the file is loaded with
SelectedVersion(c, toggle) == IF HasVersions(c) THEN toggle ELSE "US"

\* processedLines.join('\n') split again into lines: the empty string is one
\* empty line.
JoinSplit(ls) == IF ls = <<>> THEN <<EmptyLine>> ELSE ls

\* whether the last branch of the loop body pushes the line
IsOtherHashLine(trimmed) ==
    /\ StartsWith(trimmed, "#")
    /\ ~StartsWith(trimmed, "#ifdef")
    /\ ~StartsWith(trimmed, "#ifndef")
    /\ ~StartsWith(trimmed, "#else")
    /\ ~StartsWith(trimmed, "#endif")

\* the condition of '#ifdef VERSION_JP' inverted
SkipIfdefInverted(targetVersion) == targetVersion = "JP"

\* skipBlock at '#ifdef VERSION_JP': targetVersion !== 'JP'
SkipIfdef(targetVersion) == targetVersion # "JP"

\* skipBlock at '#ifndef VERSION_JP': targetVersion === 'JP'
SkipIfndef(targetVersion) == targetVersion = "JP"

ParseObjectCollisionBegin ==
    /\ pc = "start"
    /\ entry = "LevelLoader"
    /\ IF HasVersions(content)
       THEN /\ pc' = "preprocess"
            /\ UNCHANGED processedContent
       ELSE /\ pc' = "vertices"
            /\ processedContent' = content
    /\ UNCHANGED <<uiVars, entry, content, version, ppVars, vertices, triangles,
                   currentSurface, lineIdx, result, viewVars,
                   objVars, geoVars>>

PreprocessBegin ==
    /\ pc = "start"
    /\ entry = "Preprocess"
    /\ pc' = "preprocess"
    /\ UNCHANGED <<uiVars, entry, content, version, ppVars, parseVars, result, viewVars,
                   objVars, geoVars>>

\* the block counts as closed only below depth zero
BlockClosedBelowZero(depth) == depth < 0

\* after ifDepth--: if (ifDepth === 0)
BlockClosed(depth) == depth = 0

\* one iteration of the for loop of preprocessVersionDirectives
PreprocessLine ==
    /\ pc = "preprocess"
    /\ idx <= Len(content)
    /\ LET line == content[idx]
           trimmed == line.dir
       IN  IF StartsWith(trimmed, "#ifdef VERSION_JP")
           THEN /\ insideIf' = TRUE
                /\ ifCondition' = "VERSION_JP"
                /\ skipBlock' = SkipIfdef(version)
                /\ ifDepth' = 1
                /\ UNCHANGED processedLines
           ELSE IF StartsWith(trimmed, "#ifndef VERSION_JP")
           THEN /\ insideIf' = TRUE
                /\ ifCondition' = "!VERSION_JP"
                /\ skipBlock' = SkipIfndef(version)
                /\ ifDepth' = 1
                /\ UNCHANGED processedLines
           ELSE IF insideIf /\ (StartsWith(trimmed, "#ifdef") \/ StartsWith(trimmed, "#ifndef"))
           THEN /\ ifDepth' = ifDepth + 1
                /\ UNCHANGED <<uiVars, insideIf, ifCondition, skipBlock, processedLines>>
           ELSE IF insideIf /\ StartsWith(trimmed, "#else") /\ ifDepth = 1
           THEN /\ skipBlock' = ~skipBlock
                /\ UNCHANGED <<uiVars, insideIf, ifCondition, ifDepth, processedLines>>
           ELSE IF insideIf /\ StartsWith(trimmed, "#endif")
           THEN /\ ifDepth' = ifDepth - 1
                /\ IF BlockClosed(ifDepth - 1)
                   THEN /\ insideIf' = FALSE
                        /\ skipBlock' = FALSE
                        /\ ifCondition' = ""
                   ELSE UNCHANGED <<uiVars, insideIf, skipBlock, ifCondition>>
                /\ UNCHANGED processedLines
           ELSE IF insideIf /\ skipBlock
           THEN UNCHANGED <<uiVars, insideIf, ifCondition, skipBlock, ifDepth, processedLines>>
           ELSE IF IsOtherHashLine(trimmed)
           THEN UNCHANGED <<uiVars, insideIf, ifCondition, skipBlock, ifDepth, processedLines>>
           ELSE /\ processedLines' = Append(processedLines, line)
                /\ UNCHANGED <<uiVars, insideIf, ifCondition, skipBlock, ifDepth>>
    /\ idx' = idx + 1
    /\ UNCHANGED <<uiVars, entry, content, version, pc, parseVars, result, viewVars,
                   objVars, geoVars>>

\* return processedLines.join('\n'), to the caller or into parseObjectCollision
PreprocessReturn ==
    /\ pc = "preprocess"
    /\ idx > Len(content)
    /\ IF entry = "LevelLoader"
       THEN /\ processedContent' = JoinSplit(processedLines)
            /\ pc' = "vertices"
            /\ UNCHANGED result
       ELSE /\ pc' = "done"
            /\ result' = "ok"
            /\ UNCHANGED processedContent
    /\ UNCHANGED <<uiVars, entry, content, version, ppVars, vertices, triangles,
                   currentSurface, lineIdx, viewVars,
                   objVars, geoVars>>

\* ---------------------------------------------------------------- parsing
ParseCollisionFileBegin ==
    /\ pc = "start"
    /\ entry \in {"FileHandler", "CollisionFileManager"}
    /\ processedContent' = content
    /\ pc' = "vertices"
    /\ UNCHANGED <<uiVars, entry, content, version, ppVars, vertices, triangles,
                   currentSurface, lineIdx, result, viewVars,
                   objVars, geoVars>>

RECURSIVE Flatten(_)
Flatten(ls) == IF ls = <<>> THEN <<>> ELSE ls[1].toks \o Flatten(Tail(ls))

\* the object pushed for one match of vertexPattern
VertexOf(tok) == [x |-> ParseInt(tok.a), y |-> ParseInt(tok.b), z |-> ParseInt(tok.c)]

\* the matches pushed in reverse order
RECURSIVE VertexMatchesReversed(_)
VertexMatchesReversed(toks) ==
    IF toks = <<>> THEN <<>>
    ELSE IF toks[1].k = "COL_VERTEX"
         THEN VertexMatchesReversed(Tail(toks)) \o <<VertexOf(toks[1])>>
         ELSE VertexMatchesReversed(Tail(toks))

\* the matches of the global vertexPattern over the whole text, left to right
RECURSIVE VertexMatches(_)
VertexMatches(toks) ==
    IF toks = <<>> THEN <<>>
    ELSE IF toks[1].k = "COL_VERTEX"
         THEN <<VertexOf(toks[1])>> \o VertexMatches(Tail(toks))
         ELSE VertexMatches(Tail(toks))

\* the while loop over vertexPattern.exec, then the set-up of the line loop
ScanVertices ==
    /\ pc = "vertices"
    /\ vertices' = VertexMatches(Flatten(processedContent))
    /\ currentSurface' = "SURFACE_DEFAULT"
    /\ lineIdx' = 1
    /\ pc' = "lines"
    /\ UNCHANGED <<uiVars, entry, content, version, ppVars, processedContent, triangles,
                   result, viewVars,
                   objVars, geoVars>>

\* line.match(pattern) without the g flag: the leftmost match on the line,
\* 0 when there is none
RECURSIVE FirstMatch(_, _, _)
FirstMatch(toks, kind, i) ==
    IF i > Len(toks) THEN 0
    ELSE IF toks[i].k = kind THEN i
    ELSE FirstMatch(toks, kind, i + 1)

\* vNIndex < vertices.length
InRangeLe(index, length) == index <= length
InRange(index, length) == index < length

\* vertices[index]: undefined past the end of the array
Undefined == [x |-> 0, y |-> 0, z |-> 0, undefined |-> TRUE]
VertexAt(verts, index) ==
    IF index + 1 \in DOMAIN verts THEN verts[index + 1] ELSE Undefined

\* (variant with the second and third vertex exchanged)
TriangleOfReversed(tok, verts, surface) ==
    [surface_type |-> surface,
     vertex1 |-> VertexAt(verts, ParseInt(tok.a)),
     vertex2 |-> VertexAt(verts, ParseInt(tok.c)),
     vertex3 |-> VertexAt(verts, ParseInt(tok.b))]

\* the object pushed for an accepted COL_TRI statement
TriangleOf(tok, verts, surface) ==
    [surface_type |-> surface,
     vertex1 |-> VertexAt(verts, ParseInt(tok.a)),
     vertex2 |-> VertexAt(verts, ParseInt(tok.b)),
     vertex3 |-> VertexAt(verts, ParseInt(tok.c))]

\* v1Index < vertices.length && v2Index < vertices.length && v3Index < vertices.length
Accepts(tok, verts) ==
    /\ InRange(ParseInt(tok.a), Len(verts))
    /\ InRange(ParseInt(tok.b), Len(verts))
    /\ InRange(ParseInt(tok.c), Len(verts))

\* one iteration of the for loop over the lines
ScanLine ==
    /\ pc = "lines"
    /\ lineIdx <= Len(processedContent)
    /\ LET toks == processedContent[lineIdx].toks
           surfaceMatch == FirstMatch(toks, "COL_TRI_INIT", 1)
           triMatch == FirstMatch(toks, "COL_TRI", 1)
       IN  IF surfaceMatch # 0
           THEN /\ currentSurface' = toks[surfaceMatch].s
                /\ UNCHANGED triangles
           ELSE IF triMatch # 0 /\ Accepts(toks[triMatch], vertices)
           THEN /\ triangles' = Append(triangles,
                                       TriangleOf(toks[triMatch], vertices, currentSurface))
                /\ UNCHANGED currentSurface
           ELSE UNCHANGED <<uiVars, triangles, currentSurface>>
    /\ lineIdx' = lineIdx + 1
    /\ UNCHANGED <<uiVars, entry, content, version, pc, ppVars, processedContent, vertices,
                   result, viewVars,
                   objVars, geoVars>>

\* whether the entry point throws on an empty triangle list
ThrowsOnEmpty(e) == e = "FileHandler"

\* after the loop: FileHandler.parseCollisionFile throws when no triangle was
\* accepted, the other two return what they have
ParseReturn ==
    /\ pc = "lines"
    /\ lineIdx > Len(processedContent)
    /\ result' = IF ThrowsOnEmpty(entry) /\ Len(triangles) = 0 THEN "error" ELSE "ok"
    /\ pc' = "done"
    /\ UNCHANGED <<uiVars, entry, content, version, ppVars, parseVars, viewVars,
                   objVars, geoVars>>

\* ---------------------------------------------------------------- numbers
\* A JavaScript number is kept exactly, as the record [s, m, e] that stands
\* for s * m * 2^e: s is the sign (-1, 0 or 1) and the mantissa m a natural
\* number written in limbs of LimbBits bits, least significant limb first,
\* without leading zero limbs; m is odd, or the number is zero. The sign of a
\* zero is not kept (no comparison depends on it), and there are no
\* infinities: the results are those of IEEE 754 arithmetic as long as they
\* lie in the normal range of the format they are rounded to.
LimbBits == 15
Limb == 2 ^ LimbBits

\* the largest and the smallest element of a non-empty set of integers
Largest(S) == CHOOSE i \in S : \A j \in S : j <= i
Smallest(S) == CHOOSE i \in S : \A j \in S : i <= j

\* a without the limbs above the last of the indices S of its non-zero limbs
TrimTo(a, S) == IF S = {} THEN <<>> ELSE SubSeq(a, 1, Largest(S))

\* a without leading zero limbs
Trim(a) == TrimTo(a, { i \in 1..Len(a) : a[i] # 0 })

RECURSIVE FromNat(_)
FromNat(n) == IF n = 0 THEN <<>> ELSE <<n % Limb>> \o FromNat(n \div Limb)

First(a) == IF a = <<>> THEN 0 ELSE a[1]

\* limb i of a, zero above its length
Digit(a, i) == IF i <= Len(a) THEN a[i] ELSE 0

\* the carry into limb i of a + b: a limb below i overflows, and the limbs
\* between it and i are full
CarryInto(a, b, i) ==
    IF \E j \in 1..(i - 1) :
          /\ Digit(a, j) + Digit(b, j) >= Limb
          /\ \A k \in (j + 1)..(i - 1) : Digit(a, k) + Digit(b, k) = Limb - 1
    THEN 1 ELSE 0

\* the first n limbs of a + b
AddLimbs(a, b, n) ==
    Trim([i \in 1..n |-> (Digit(a, i) + Digit(b, i) + CarryInto(a, b, i)) % Limb])

BigAdd(a, b) == AddLimbs(a, b, (IF Len(a) < Len(b) THEN Len(b) ELSE Len(a)) + 1)

\* the borrow from limb i of a - b: a limb below i is short, and the limbs
\* between it and i are equal
BorrowFrom(a, b, i) ==
    IF \E j \in 1..(i - 1) :
          /\ a[j] < Digit(b, j)
          /\ \A k \in (j + 1)..(i - 1) : a[k] = Digit(b, k)
    THEN 1 ELSE 0

\* a - b, where a >= b
BigSub(a, b) ==
    Trim([i \in 1..Len(a) |-> (a[i] - Digit(b, i) - BorrowFrom(a, b, i)) % Limb])

\* -1, 0 or 1 as a is less than, equal to or greater than b, for a and b of
\* the same length that differ in the limbs S
CompareAt(a, b, S) ==
    IF S = {} THEN 0
    ELSE IF a[Largest(S)] < b[Largest(S)] THEN 0 - 1
    ELSE 1

BigCompare(a, b) ==
    IF Len(a) < Len(b) THEN 0 - 1
    ELSE IF Len(a) > Len(b) THEN 1
    ELSE CompareAt(a, b, { i \in 1..Len(a) : a[i] # b[i] })

ShiftLimbs(a, n) == IF a = <<>> THEN a ELSE [i \in 1..n |-> 0] \o a

\* a * p + c for a power p of two up to Limb and c < p
ShiftIn(a, p, c) ==
    Trim([i \in 1..(Len(a) + 1) |->
            (IF i <= Len(a) THEN (a[i] * p) % Limb ELSE 0)
            + (IF i = 1 THEN c ELSE (a[i - 1] * p) \div Limb)])

\* a * d for a limb d: the low and the high halves of the limb products
MulLimb(a, d) ==
    BigAdd(Trim([i \in 1..Len(a) |-> (a[i] * d) % Limb]),
           ShiftLimbs(Trim([i \in 1..Len(a) |-> (a[i] * d) \div Limb]), 1))

RECURSIVE BigMul(_, _)
BigMul(a, b) ==
    IF b = <<>> THEN <<>>
    ELSE BigAdd(MulLimb(a, b[1]), ShiftLimbs(BigMul(a, Tail(b)), 1))

\* a * 2^n
ShiftLeft(a, n) == ShiftLimbs(ShiftIn(a, 2 ^ (n % LimbBits), 0), n \div LimbBits)

\* x div p for a power p of two below Limb
ShiftBits(x, p) ==
    Trim([i \in 1..Len(x) |->
            (x[i] \div p) + (IF i < Len(x) THEN (x[i + 1] % p) * (Limb \div p) ELSE 0)])

\* a div 2^n
ShiftRight(a, n) ==
    ShiftBits(IF n \div LimbBits >= Len(a) THEN <<>>
              ELSE SubSeq(a, (n \div LimbBits) + 1, Len(a)),
              2 ^ (n % LimbBits))

\* a mod 2^n
LowBits(a, n) ==
    IF n \div LimbBits >= Len(a) THEN a
    ELSE Trim(SubSeq(a, 1, n \div LimbBits)
              \o <<a[(n \div LimbBits) + 1] % (2 ^ (n % LimbBits))>>)

\* the number of bits of n, for 0 <= n < 2^31
BitLength(n) == Cardinality({ k \in 0..30 : 2 ^ k <= n })

BigBitLength(a) ==
    IF a = <<>> THEN 0 ELSE LimbBits * (Len(a) - 1) + BitLength(a[Len(a)])

\* the number of zero bits at the end of the limb n # 0
TrailingZeros(n) == Cardinality({ k \in 1..(LimbBits - 1) : n % (2 ^ k) = 0 })

\* the zero bits at the end of a, whose first non-zero limb is limb j
TrailingZerosFrom(a, j) == LimbBits * (j - 1) + TrailingZeros(a[j])

BigTrailingZeros(a) == TrailingZerosFrom(a, Smallest({ i \in 1..Len(a) : a[i] # 0 }))

\* the number s * m * 2^e, for m with z trailing zero bits
Zero == [s |-> 0, m |-> <<>>, e |-> 0]

Odd(s, m, e, z) == [s |-> s, m |-> ShiftRight(m, z), e |-> e + z]

Num(s, m, e) ==
    IF m = <<>> \/ s = 0 THEN Zero ELSE Odd(s, m, e, BigTrailingZeros(m))

\* an integer of the model as a number
FromInt(n) ==
    Num(IF n < 0 THEN 0 - 1 ELSE 1,
        IF n < 0 THEN BigAdd(FromNat(0 - (n + 1)), <<1>>) ELSE FromNat(n),
        0)

One == [s |-> 1, m |-> <<1>>, e |-> 0]

\* a number whose odd mantissa has k bits too many, rounded to nearest, ties
\* to even: q2 is the mantissa with one bit too many, whose last bit decides
\* (the bits below it are not all zero unless k = 1, the mantissa being odd)
RoundedFrom(s, q2, k, e) ==
    Num(s,
        ShiftRight(IF q2[1] % 2 = 1 /\ (k > 1 \/ q2[1] % 4 = 3)
                   THEN BigAdd(q2, <<1>>) ELSE q2, 1),
        e)

RoundedAt(x, k) ==
    IF k <= 0 THEN x ELSE RoundedFrom(x.s, ShiftRight(x.m, k - 1), k, x.e + k)

\* x rounded to a mantissa of p bits
RoundTo(x, p) == IF x.s = 0 THEN x ELSE RoundedAt(x, BigBitLength(x.m) - p)

\* exact product, sum and difference
Product(x, y) ==
    IF x.s = 0 \/ y.s = 0 THEN Zero
    ELSE Num(x.s * y.s, BigMul(x.m, y.m), x.e + y.e)

Negated(x) == [x EXCEPT !.s = 0 - x.s]

\* the sum of sx * a * 2^e and sy * b * 2^e, where c compares a with b
SumCompared(sx, a, sy, b, c, e) ==
    Num(IF sx = sy \/ c >= 0 THEN sx ELSE sy,
        IF sx = sy THEN BigAdd(a, b)
        ELSE BigSub(IF c >= 0 THEN a ELSE b, IF c >= 0 THEN b ELSE a),
        e)

SumAligned(sx, a, sy, b, e) == SumCompared(sx, a, sy, b, BigCompare(a, b), e)

SumAt(x, y, e) ==
    SumAligned(x.s, ShiftLeft(x.m, x.e - e), y.s, ShiftLeft(y.m, y.e - e), e)

Sum(x, y) ==
    IF x.s = 0 THEN y
    ELSE IF y.s = 0 THEN x
    ELSE SumAt(x, y, IF x.e < y.e THEN x.e ELSE y.e)

Difference(x, y) == Sum(x, Negated(y))

\* x < y
Less(x, y) == Difference(x, y).s = 0 - 1

\* the operators *, + and - on numbers: the exact result rounded to a double
Times(x, y) == RoundTo(Product(x, y), 53)
Plus(x, y) == RoundTo(Sum(x, y), 53)
Minus(x, y) == RoundTo(Difference(x, y), 53)

\* a quotient or root q with a sticky bit for its remainder, rounded to a
\* double
RoundedWithSticky(s, q, rem, e) ==
    RoundTo(Num(s, ShiftIn(q, 2, IF rem = <<>> THEN 0 ELSE 1), e), 53)

\* one step of the square root onto acc = [root, rem, i], i bit pairs still to
\* come: r is the remainder with the next bit pair brought down
SqrtStep(acc, r, trial) ==
    IF BigCompare(r, trial) >= 0
    THEN [root |-> ShiftIn(acc.root, 2, 1), rem |-> BigSub(r, trial), i |-> acc.i - 1]
    ELSE [root |-> ShiftIn(acc.root, 2, 0), rem |-> r, i |-> acc.i - 1]

\* k steps of the integer square root of n onto acc, as the steps of the first
\* half followed by those of the second
RECURSIVE SqrtRem(_, _, _)
SqrtRem(n, acc, k) ==
    IF acc.i = 0 \/ k = 0 THEN acc
    ELSE IF k = 1
    THEN SqrtStep(acc,
                  ShiftIn(acc.rem, 4, First(ShiftRight(n, 2 * (acc.i - 1))) % 4),
                  ShiftIn(acc.root, 4, 1))
    ELSE SqrtRem(n, SqrtRem(n, acc, k \div 2), k - (k \div 2))

SqrtRounded(sr, e) == RoundedWithSticky(1, sr.root, sr.rem, e)

\* the root of the k bit pairs of n
SqrtPairs(n, k, e) ==
    SqrtRounded(SqrtRem(n, [root |-> <<>>, rem |-> <<>>, i |-> k], k), e)

SqrtOf(n, e) == SqrtPairs(n, (BigBitLength(n) + 1) \div 2, e)

\* the root of x.m * 2^t * 2^(x.e - t), for x.e - t even
SqrtShifted(x, t) == SqrtOf(ShiftLeft(x.m, t), ((x.e - t) \div 2) - 1)

\* the shift t is t0 or one more, whichever makes x.e - t even
SqrtFrom(x, t0) == SqrtShifted(x, t0 + ((x.e - t0) % 2))

\* Math.sqrt(x) for x >= 0: the root to 55 bits or more with a sticky bit for
\* the remainder, rounded to a double
MathSqrt(x) ==
    IF x.s = 0 THEN Zero
    ELSE SqrtFrom(x, IF BigBitLength(x.m) >= 110 THEN 0 ELSE 110 - BigBitLength(x.m))

\* one step of the long division by d onto acc = [q, rem, i], i bits still to
\* come: r is the remainder with the next bit brought down
DivStep(acc, d, r) ==
    IF BigCompare(r, d) >= 0
    THEN [q |-> ShiftIn(acc.q, 2, 1), rem |-> BigSub(r, d), i |-> acc.i - 1]
    ELSE [q |-> ShiftIn(acc.q, 2, 0), rem |-> r, i |-> acc.i - 1]

\* k steps of the long division of n by d onto acc, as the steps of the first
\* half followed by those of the second
RECURSIVE DivRem(_, _, _, _)
DivRem(n, d, acc, k) ==
    IF acc.i = 0 \/ k = 0 THEN acc
    ELSE IF k = 1
    THEN DivStep(acc, d, ShiftIn(acc.rem, 2, First(ShiftRight(n, acc.i - 1)) % 2))
    ELSE DivRem(n, d, DivRem(n, d, acc, k \div 2), k - (k \div 2))

DivRounded(s, qr, e) == RoundedWithSticky(s, qr.q, qr.rem, e)

\* the bits of n above the lowest i make a number below d, which is the
\* remainder the division starts from
QuotientFrom(s, n, d, i, e) ==
    DivRounded(s, DivRem(n, d, [q |-> <<>>, rem |-> ShiftRight(n, i), i |-> i], i), e)

QuotientOf(s, n, d, e) ==
    QuotientFrom(s, n, d,
                 IF BigBitLength(n) < BigBitLength(d) THEN 0
                 ELSE BigBitLength(n) - BigBitLength(d) + 1,
                 e)

DivideShifted(x, y, k) ==
    QuotientOf(x.s * y.s, ShiftLeft(x.m, k), y.m, x.e - k - y.e - 1)

\* x / y for y # 0: the quotient to 55 bits or more with a sticky bit for the
\* remainder, rounded to a double
Divide(x, y) ==
    IF x.s = 0 \/ y.s = 0 THEN Zero
    ELSE DivideShifted(x, y, IF BigBitLength(x.m) > 55 + BigBitLength(y.m) THEN 0
                             ELSE 55 + BigBitLength(y.m) - BigBitLength(x.m))

\* the integer part of |value|
IntegerPart(value) ==
    IF value.e >= 0 THEN ShiftLeft(value.m, value.e)
    ELSE ShiftRight(value.m, 0 - value.e)

\* s * low modulo 2^32 as a signed 32-bit integer, for low < 2^32, where c
\* compares low with 2^31
WrapCompared(s, low, c) ==
    Num(IF c < 0 \/ (c = 0 /\ s < 0) THEN s ELSE 0 - s,
        IF c < 0 \/ (c = 0 /\ s < 0) THEN low ELSE BigSub(ShiftLeft(<<1>>, 32), low),
        0)

Wrap(s, low) == WrapCompared(s, low, BigCompare(low, ShiftLeft(<<1>>, 31)))

\* value | 0
\* (variant that clamps to the signed 32-bit range instead of wrapping)
ToInt32Clamped(value) ==
    IF value.s = 0 THEN Zero
    ELSE IF BigCompare(IntegerPart(value), ShiftLeft(<<1>>, 31)) < 0
         THEN Num(value.s, IntegerPart(value), 0)
    ELSE IF value.s < 0 THEN Num(0 - 1, ShiftLeft(<<1>>, 31), 0)
    ELSE Num(1, BigSub(ShiftLeft(<<1>>, 31), <<1>>), 0)

\* value | 0: the integer part modulo 2^32, as a signed 32-bit integer
ToInt32(value) ==
    IF value.s = 0 THEN Zero ELSE Wrap(value.s, LowBits(IntegerPart(value), 32))

\* storing a number in a Float32Array and reading it back (for magnitudes in
\* the normal range of float32)
ToFloat32(value) == RoundTo(value, 24)

\* the literals 0.0001 and 0.01 as doubles: 0x1.a36e2eb1c432dp-14 and
\* 0x1.47ae147ae147bp-7
DegenerateMagnitude == [s |-> 1, m |-> <<17197, 22072, 23435, 209>>, e |-> 0 - 66]
YThreshold == [s |-> 1, m |-> <<5243, 3932, 27525, 163>>, e |-> 0 - 59]

\* ----------------------------------------------------------------- viewer
\* a non-negative integer stored in a Float32Array: rounded to 24 significant
\* bits, to nearest, ties to even
Float32Int(n) ==
    LET k == BitLength(n) - 24
        p == 2 ^ k
        q == n \div p
        r == n % p
        up == 2 * r > p \/ (2 * r = p /\ q % 2 = 1)
    IN  IF k <= 0 THEN n
        ELSE IF up THEN (q + 1) * p ELSE q * p

Float32(n) == IF n < 0 THEN 0 - Float32Int(0 - n) ELSE Float32Int(n)

\* the ordinal createSurfaceTypeMesh stores for the triangle at 0-based index i
StoredIndexShifted(i) == i + 1
StoredIndex(i) == i

\* the positions and triangleIndex attributes built by createSurfaceTypeMesh
CreateSurfaceTypeMesh(tris) ==
    [positions |->
        [j \in 1..(3 * Len(tris)) |->
            LET t == tris[((j - 1) \div 3) + 1]
                v == CASE (j - 1) % 3 = 0 -> t.vertex1
                       [] (j - 1) % 3 = 1 -> t.vertex2
                       [] (j - 1) % 3 = 2 -> t.vertex3
            IN  [x |-> Float32(v.x), y |-> Float32(v.y), z |-> Float32(v.z)]],
     triangleIndex |->
        [j \in 1..(3 * Len(tris)) |-> Float32(StoredIndex((j - 1) \div 3))]]

\* getTriangleDataFromIntersection on the level mesh (no userData.objectTriangles)
GetTriangleDataFromIntersection(m, faceIndex, viewerTris) ==
    LET triangleIndices == m.triangleIndex
        vertexIndex == faceIndex * 3
    IN  IF vertexIndex < Len(triangleIndices)
           /\ triangleIndices[vertexIndex + 1] >= 0
           /\ triangleIndices[vertexIndex + 1] < Len(viewerTris)
        THEN viewerTris[triangleIndices[vertexIndex + 1] + 1]
        ELSE NoTriangle

\* the axes of a vector, and the axis after c in the order x, y, z, x
Axes == {"x", "y", "z"}
NextAxis(c) == CASE c = "x" -> "y" [] c = "y" -> "z" [] c = "z" -> "x"

\* the vector with the components of the function v
Vector(v) == [x |-> v["x"], y |-> v["y"], z |-> v["z"]]

\* the coordinates of a vertex, each through | 0
Truncated(vertex) == Vector([c \in Axes |-> ToInt32(FromInt(vertex[c]))])

\* toFloat32(a - b) for each coordinate: an edge, subtracted as numbers
EdgeDifference(a, b) == Vector([c \in Axes |-> ToFloat32(Minus(a[c], b[c]))])

\* nx, ny and nz
\* (variant with the two edges exchanged: e x d)
CrossProductExchanged(d, e) ==
    Vector([c \in Axes |->
        ToFloat32(Minus(Times(e[NextAxis(c)], d[NextAxis(NextAxis(c))]),
                        Times(e[NextAxis(NextAxis(c))], d[NextAxis(c)])))])

\* nx, ny and nz: the cross product of d and e, rounded to float32
CrossProduct(d, e) ==
    Vector([c \in Axes |->
              ToFloat32(Minus(Times(d[NextAxis(c)], e[NextAxis(NextAxis(c))]),
                              Times(d[NextAxis(NextAxis(c))], e[NextAxis(c)])))])

\* toFloat32(nx * nx), toFloat32(ny * ny) and toFloat32(nz * nz)
Squares(n) == Vector([c \in Axes |-> ToFloat32(Times(n[c], n[c]))])

\* mag = toFloat32(Math.sqrt(toFloat32(sq.x + sq.y + sq.z)))
Magnitude(sq) ==
    ToFloat32(MathSqrt(ToFloat32(Plus(Plus(sq.x, sq.y), sq.z))))

\* nx, ny and nz multiplied by the inverted magnitude
Scaled(n, invMag) == Vector([c \in Axes |-> ToFloat32(Times(n[c], invMag))])

\* the safety check on the magnitude, and the normalisation
Normalized(n, mag) ==
    IF Less(mag, DegenerateMagnitude)
    THEN [x |-> Zero, y |-> One, z |-> Zero]
    ELSE Scaled(n, ToFloat32(Divide(One, mag)))

NormalOfCross(n) == Normalized(n, Magnitude(Squares(n)))

\* the normal from the edges d = v2 - v1 and e = v3 - v2
NormalOfEdges(d, e) == NormalOfCross(CrossProduct(d, e))

NormalOfVertices(v1, v2, v3) ==
    NormalOfEdges(EdgeDifference(v2, v1), EdgeDifference(v3, v2))

\* MeshCreator.calculateTriangleNormalSM64Style: the bit-exact normal
CalculateTriangleNormalSM64Style(triangle) ==
    NormalOfVertices(Truncated(triangle.vertex1), Truncated(triangle.vertex2),
                     Truncated(triangle.vertex3))

\* MeshCreator.classifyTriangleGeometry(normal)
\* (variant in which y = 0.01 is a floor)
ClassifyTriangleGeometryTiesFloor(normal) ==
    IF ~Less(normal.y, YThreshold) THEN "floor"
    ELSE IF Less(normal.y, Negated(YThreshold)) THEN "ceiling"
    ELSE "wall"

\* MeshCreator.classifyTriangleGeometry(normal): floor above 0.01, ceiling
\* below -0.01, wall in between (both ends included)
ClassifyTriangleGeometry(normal) ==
    IF Less(YThreshold, normal.y) THEN "floor"
    ELSE IF Less(normal.y, Negated(YThreshold)) THEN "ceiling"
    ELSE "wall"

\* THREE.Vector3: the constructor on integer coordinates, sub, cross, length
\* and normalize, which divides by length() || 1 as a product with 1 / length
Vector3(v) == Vector([c \in Axes |-> FromInt(v[c])])

Sub(a, b) == Vector([c \in Axes |-> Minus(a[c], b[c])])

Cross(a, b) ==
    Vector([c \in Axes |->
              Minus(Times(a[NextAxis(c)], b[NextAxis(NextAxis(c))]),
                    Times(a[NextAxis(NextAxis(c))], b[NextAxis(c)]))])

Length(v) == MathSqrt(Plus(Plus(Times(v.x, v.x), Times(v.y, v.y)), Times(v.z, v.z)))

MultiplyScalar(v, scalar) == Vector([c \in Axes |-> Times(v[c], scalar)])

DivideScalar(v, scalar) == MultiplyScalar(v, Divide(One, scalar))

LengthOrOne(length) == IF length = Zero THEN One ELSE length

Normalize(v) == DivideScalar(v, LengthOrOne(Length(v)))

\* the normal of the edges v2 - v1 and v3 - v1
NormalOfCorners(v1, v2, v3) == Normalize(Cross(Sub(v2, v1), Sub(v3, v1)))

\* GeometryClassifier.calculateTriangleNormal: the reference normal
CalculateTriangleNormal(triangle) ==
    NormalOfCorners(Vector3(triangle.vertex1), Vector3(triangle.vertex2),
                    Vector3(triangle.vertex3))

\* the class GeometryClassifier.classifyTriangleGeometry gives to a normal
ClassOfNormal(normal) ==
    IF Less(YThreshold, normal.y) THEN "floor"
    ELSE IF Less(normal.y, Negated(YThreshold)) THEN "ceiling"
    ELSE "wall"

\* GeometryClassifier.classifyTriangleGeometry(triangle)
GeometryClassifierClassifyTriangleGeometry(triangle) ==
    ClassOfNormal(CalculateTriangleNormal(triangle))

\* GeometryClassifier.getGeometryStats
RECURSIVE GetGeometryStats(_)
GetGeometryStats(tris) ==
    IF tris = <<>> THEN NoStats
    ELSE [GetGeometryStats(SubSeq(tris, 1, Len(tris) - 1))
            EXCEPT ![GeometryClassifierClassifyTriangleGeometry(tris[Len(tris)])] = @ + 1]

\* the geometry type that gives each triangle its colour in
\* createGeometryTypeMesh
GeometryTypes(tris) ==
    [i \in 1..Len(tris) |->
        ClassifyTriangleGeometry(CalculateTriangleNormalSM64Style(tris[i]))]

\* createGeometryTypeMesh builds the position and triangleIndex attributes as
\* createSurfaceTypeMesh does
CreateGeometryTypeMesh(tris) == CreateSurfaceTypeMesh(tris)

\* the normal and the geometry type shown by showTriangleInfo
InfoOfNormal(normalSM64) ==
    [normal |-> normalSM64, geometryType |-> ClassifyTriangleGeometry(normalSM64)]

ShowTriangleInfo(triangle) == InfoOfNormal(CalculateTriangleNormalSM64Style(triangle))

\* UIControls.updateStats: the geometry statistics are shown in geometry view
UpdateStats(mode, tris) == IF mode = "surface" THEN NoStats ELSE GetGeometryStats(tris)

\* FileHandler.handleFileLoad hands the parsed data to the viewer:
\* loadCollisionData stores the triangles, createMesh builds the mesh of the
\* current view mode and updateStats refreshes the statistics
LoadCollisionData ==
    /\ pc = "done"
    /\ entry = "FileHandler"
    /\ result = "ok"
    /\ stats' = UpdateStats(viewMode, triangles)
    /\ geometryClasses' = IF viewMode = "surface" THEN <<>> ELSE GeometryTypes(triangles)
    /\ mesh' = IF viewMode = "surface" THEN CreateSurfaceTypeMesh(triangles)
               ELSE CreateGeometryTypeMesh(triangles)
    /\ viewerTriangles' = triangles
    /\ pc' = "loaded"
    /\ UNCHANGED <<uiVars, entry, content, version, ppVars, parseVars, result, selected,
                   objVars, info, viewMode>>

\* a click on the view mode button: toggleViewMode flips the mode, createMesh
\* rebuilds the mesh and updateViewModeButton calls updateStats
ToggledViewMode(mode) == IF mode = "surface" THEN "geometry" ELSE "surface"

ToggleViewMode ==
    /\ pc \in {"start", "loaded"}
    /\ stats' = UpdateStats(ToggledViewMode(viewMode), viewerTriangles)
    /\ geometryClasses' = IF ToggledViewMode(viewMode) = "surface" THEN <<>>
                          ELSE GeometryTypes(viewerTriangles)
    /\ mesh' = IF ToggledViewMode(viewMode) = "surface"
               THEN CreateSurfaceTypeMesh(viewerTriangles)
               ELSE CreateGeometryTypeMesh(viewerTriangles)
    /\ viewMode' = ToggledViewMode(viewMode)
    /\ UNCHANGED <<uiVars, entry, content, version, pc, ppVars, parseVars, result,
                   viewerTriangles, selected, objVars, info>>

\* a click: the raycaster hits face faceIndex of the level mesh and
\* showTriangleInfo shows the triangle found for it
HandleTriangleSelection ==
    /\ pc = "loaded"
    /\ \E faceIndex \in 0..(Len(viewerTriangles) - 1) :
          LET triangleData == GetTriangleDataFromIntersection(mesh, faceIndex, viewerTriangles)
          IN  /\ info' = IF triangleData = NoTriangle THEN info
                         ELSE ShowTriangleInfo(triangleData)
              /\ selected' = triangleData
    /\ UNCHANGED <<uiVars, entry, content, version, pc, ppVars, parseVars, result,
                   viewerTriangles, mesh, objVars, geometryClasses, stats, viewMode>>

\* --------------------------------------------------------- object loading
\* A line of script.c is the sequence of macro calls on it, left to right.
\* An OBJECT or OBJECT_WITH_ACTS call carries the text after MODEL_ up to the
\* comma and the six numbers of its position and angle as written.
ObjectMacro(k, model, x) ==
    [k |-> k, model |-> model, pos |-> <<x, N(0), Lit(TRUE, <<5>>)>>,
     angle |-> <<N(0), Lit(FALSE, <<9, 0>>), N(0)>>]
MarioPos == [k |-> "MARIO_POS", model |-> "", pos |-> <<>>, angle |-> <<>>]

ScriptLines ==
    { <<ObjectMacro("OBJECT", "FOO", N(1))>>,
      <<ObjectMacro("OBJECT_WITH_ACTS", "FOO", Lit(TRUE, <<2>>))>>,
      <<ObjectMacro("OBJECT", "LLL_BOWSER_PIECE", N(3))>>,
      <<ObjectMacro("OBJECT", "BAR", N(4)), ObjectMacro("OBJECT", "FOO", N(5))>>,
      <<MarioPos, ObjectMacro("OBJECT", "PUZZLE_PIECE", N(6))>>,
      <<MarioPos>> }

\* script_model_name of a descriptor: absent, one name or an array of names
NoNames == [kind |-> "none", names |-> <<>>]
OneName(n) == [kind |-> "string", names |-> <<n>>]
Names(ns) == [kind |-> "array", names |-> ns]

\* Object descriptors of levels_list.yaml; area 0 stands for no area field.
ObjectDefs ==
    { [id |-> "puzzle_piece", name |-> "Puzzle A", collision_file |-> "puzzle/collision.inc.c",
       script_model_name |-> Names(<<"BAR", "FOO">>), area |-> 0],
      [id |-> "puzzle_piece", name |-> "Puzzle B", collision_file |-> "puzzle/collision.inc.c",
       script_model_name |-> NoNames, area |-> 0],
      [id |-> "foo", name |-> "Foo", collision_file |-> "foo/collision.inc.c",
       script_model_name |-> OneName("FOO"), area |-> 1],
      [id |-> "gate", name |-> "Gate", collision_file |-> "gate/collision.inc.c",
       script_model_name |-> NoNames, area |-> 2] }

LevelNames == {"lll", "bob"}

\* this.levelsPath
LevelsPath == "./data/levels"

ScriptPath(levelName) == LevelsPath \o "/" \o levelName \o "/script.c"
ObjectPath(levelName, objectDef) ==
    LevelsPath \o "/" \o levelName \o "/" \o objectDef.collision_file

\* The object collision files that exist: every level has the puzzle and the
\* gate file, no level has the foo file.
ObjectFiles ==
    [p \in { LevelsPath \o "/" \o l \o "/" \o f :
               l \in LevelNames, f \in {"puzzle/collision.inc.c", "gate/collision.inc.c"} }
       |-> <<Text(<<Vertex(N(1), N(1), N(1))>>), Text(<<Tri(N(0), N(0), N(0))>>)>>]

\* the empty list, and the lists of up to n elements of S
SeqsFromZero(S, n) == {<<>>} \cup SeqsUpTo(S, n)

\* loadLevelObjects is called for a level whose script.c may or may not exist.
InitObj ==
    /\ entry = "LevelLoader"
    /\ content = <<>>
    /\ version \in Versions
    /\ pc = "loadLevelObjects"
    /\ idx = 1
    /\ processedLines = <<>>
    /\ insideIf = FALSE
    /\ ifCondition = ""
    /\ skipBlock = FALSE
    /\ ifDepth = 0
    /\ processedContent = <<>>
    /\ vertices = <<>>
    /\ triangles = <<>>
    /\ currentSurface = ""
    /\ lineIdx = 1
    /\ result = "none"
    /\ viewerTriangles = <<>>
    /\ mesh = NoMesh
    /\ selected = NoTriangle
    /\ \E levelName \in LevelNames, areaNumber \in {NoLit, N(1)},
          defs \in SeqsFromZero(ObjectDefs, MaxObjects) :
          /\ levelInfo = [levelName |-> levelName, areaNumber |-> areaNumber, objects |-> defs]
          /\ \/ files = ObjectFiles
             \/ \E script \in SeqsUpTo(ScriptLines, MaxScriptLines) :
                   files = ObjectFiles @@ (ScriptPath(levelName) :> script)
    /\ objectPositions = <<>>
    /\ objIdx = 0
    /\ objects = <<>>
    /\ info = NoInfo
    /\ geometryClasses = <<>>
    /\ stats = NoStats
    /\ viewMode = "surface"
    /\ InitUi

\* loadFile: fetch succeeds for the files that exist
LoadFileOk(filePath) == filePath \in DOMAIN files

\* line.match(objectPattern): the leftmost OBJECT or OBJECT_WITH_ACTS call on
\* the line, 0 when there is none
RECURSIVE FirstObjectMatch(_, _)
FirstObjectMatch(toks, i) ==
    IF i > Len(toks) THEN 0
    ELSE IF toks[i].k \in {"OBJECT", "OBJECT_WITH_ACTS"} THEN i
    ELSE FirstObjectMatch(toks, i + 1)

\* the position object built from match[2..7]
PositionOf(tok) ==
    [x |-> ParseInt(tok.pos[1]), y |-> ParseInt(tok.pos[2]), z |-> ParseInt(tok.pos[3]),
     angleX |-> ParseInt(tok.angle[1]), angleY |-> ParseInt(tok.angle[2]),
     angleZ |-> ParseInt(tok.angle[3])]

\* if (!positions[modelName]) positions[modelName] = []; positions[modelName].push(position)
PushPosition(positions, modelName, position) ==
    IF modelName \in DOMAIN positions
    THEN [positions EXCEPT ![modelName] = Append(@, position)]
    ELSE positions @@ (modelName :> <<position>>)

\* the positions object after the first n lines of the script
RECURSIVE PositionsAfter(_, _)
PositionsAfter(lines, n) ==
    IF n = 0 THEN <<>>
    ELSE LET positions == PositionsAfter(lines, n - 1)
             match == FirstObjectMatch(lines[n], 1)
         IN  IF match # 0
             THEN PushPosition(positions, lines[n][match].model, PositionOf(lines[n][match]))
             ELSE positions

ParseObjectPositions(scriptContent, levelAbbr) ==
    PositionsAfter(scriptContent, Len(scriptContent))

\* String.toUpperCase on the level names and object ids of the model
ToUpperCase(str) ==
    CASE str = "lll" -> "LLL"
      [] str = "bob" -> "BOB"
      [] str = "puzzle_piece" -> "PUZZLE_PIECE"
      [] str = "foo" -> "FOO"
      [] str = "gate" -> "GATE"

LllMappings ==
    [id \in {"tilting_square_platform", "sinking_rectangular_platform",
             "sinking_square_platform", "moving_octagonal_mesh_platform", "puzzle_piece"} |->
        CASE id = "tilting_square_platform" -> "LLL_TILTING_SQUARE_PLATFORM"
          [] id = "sinking_rectangular_platform" -> "LLL_SINKING_RECTANGULAR_PLATFORM"
          [] id = "sinking_square_platform" -> "LLL_SINKING_SQUARE_PLATFORMS"
          [] id = "moving_octagonal_mesh_platform" -> "LLL_MOVING_OCTAGONAL_MESH_PLATFORM"
          [] id = "puzzle_piece" -> "LLL_BOWSER_PIECE"]

\* the names pushed from objectDef.script_model_name
ScriptModelNames(objectDef) ==
    IF objectDef.script_model_name.kind = "none" THEN <<>>
    ELSE objectDef.script_model_name.names

\* the four default patterns
DefaultModelNames(objectDef, levelAbbr) ==
    LET levelAbbrUpper == ToUpperCase(levelAbbr)
        objectIdUpper == ToUpperCase(objectDef.id)
    IN  << levelAbbrUpper \o "_" \o objectIdUpper,
           "LEVEL_GEOMETRY_" \o objectIdUpper,
           levelAbbrUpper \o "_" \o objectIdUpper,
           objectIdUpper >>

\* possibleModelNames when the loop starts
PossibleModelNames(objectDef, levelAbbr) ==
    LET names == ScriptModelNames(objectDef) \o DefaultModelNames(objectDef, levelAbbr)
    IN  IF levelAbbr = "lll" /\ objectDef.id \in DOMAIN LllMappings
        THEN <<LllMappings[objectDef.id]>> \o names
        ELSE names

\* the loop left after its first iteration
FirstPlacedOnlyFirst(names, positions, i) ==
    IF i > Len(names) THEN <<>>
    ELSE IF names[i] \in DOMAIN positions THEN positions[names[i]]
    ELSE <<>>

\* the loop over possibleModelNames from name i on
RECURSIVE FirstPlaced(_, _, _)
FirstPlaced(names, positions, i) ==
    IF i > Len(names) THEN <<>>
    ELSE IF names[i] \in DOMAIN positions THEN positions[names[i]]
    ELSE FirstPlaced(names, positions, i + 1)

FindObjectPositions(objectDef, positions, levelAbbr) ==
    FirstPlaced(PossibleModelNames(objectDef, levelAbbr), positions, 1)

\* levelInfo.areaNumber ? parseInt(levelInfo.areaNumber) : null, 0 for null
CurrentArea(li) == IF li.areaNumber = NoLit THEN 0 ELSE ParseInt(li.areaNumber)

\* currentArea && objectDef.area && objectDef.area !== currentArea
AreaFiltered(li, objectDef) ==
    CurrentArea(li) # 0 /\ objectDef.area # 0 /\ objectDef.area # CurrentArea(li)

\* one instance per position: {...objectData, position, name, id}
Instances(objectData, positions, objectDef) ==
    [i \in 1..Len(positions) |->
        [vertices |-> objectData.vertices, triangles |-> objectData.triangles,
         type |-> objectData.type, position |-> positions[i],
         name |-> objectDef.name, id |-> objectDef.id]]

\* loadLevelObjects up to the object loop: no objects, or script.c loaded and
\* parsed, or the outer catch
LoadLevelObjectsBegin ==
    /\ pc = "loadLevelObjects"
    /\ IF Len(levelInfo.objects) = 0
       THEN /\ pc' = "returned"
            /\ result' = "ok"
            /\ UNCHANGED <<uiVars, objectPositions, objIdx>>
       ELSE IF LoadFileOk(ScriptPath(levelInfo.levelName))
       THEN /\ objectPositions' = ParseObjectPositions(files[ScriptPath(levelInfo.levelName)],
                                                       levelInfo.levelName)
            /\ objIdx' = 1
            /\ pc' = "objects"
            /\ UNCHANGED result
       ELSE /\ pc' = "returned"
            /\ result' = "ok"
            /\ UNCHANGED <<uiVars, objectPositions, objIdx>>
    /\ UNCHANGED <<uiVars, entry, content, version, ppVars, parseVars, viewVars,
                   levelInfo, files, objects, geoVars>>

\* whether a failed loadFile of an object ends the whole loop
AbortsOnLoadFailureAlways(objectDef) == TRUE
AbortsOnLoadFailure(objectDef) == FALSE

\* head of one iteration of the object loop: the area filter, then loadFile
\* and the call of parseObjectCollision, or the inner catch
LoadObject ==
    /\ pc = "objects"
    /\ objIdx <= Len(levelInfo.objects)
    /\ LET objectDef == levelInfo.objects[objIdx]
           objectPath == ObjectPath(levelInfo.levelName, objectDef)
       IN  IF AreaFiltered(levelInfo, objectDef)
           THEN /\ objIdx' = objIdx + 1
                /\ UNCHANGED <<uiVars, content, pc, parseVars, result>>
           ELSE IF LoadFileOk(objectPath)
           THEN /\ content' = files[objectPath]
                /\ pc' = "start"
                /\ processedContent' = <<>>
                /\ vertices' = <<>>
                /\ triangles' = <<>>
                /\ currentSurface' = ""
                /\ lineIdx' = 1
                /\ result' = "none"
                /\ UNCHANGED objIdx
           ELSE IF AbortsOnLoadFailure(objectDef)
           THEN /\ objIdx' = Len(levelInfo.objects) + 1
                /\ UNCHANGED <<uiVars, content, pc, parseVars, result>>
           ELSE /\ objIdx' = objIdx + 1
                /\ UNCHANGED <<uiVars, content, pc, parseVars, result>>
    /\ UNCHANGED <<uiVars, entry, version, ppVars, viewVars, levelInfo, files,
                   objectPositions, objects, geoVars>>

\* rest of the iteration: parseObjectCollision has returned; find the
\* positions and push one instance for each
PlaceObject ==
    /\ pc = "done"
    /\ objIdx \in 1..Len(levelInfo.objects)
    /\ LET objectDef == levelInfo.objects[objIdx]
           objectData == [vertices |-> vertices, triangles |-> triangles, type |-> "object"]
           positions == FindObjectPositions(objectDef, objectPositions, levelInfo.levelName)
       IN  objects' = objects \o Instances(objectData, positions, objectDef)
    /\ objIdx' = objIdx + 1
    /\ pc' = "objects"
    /\ UNCHANGED <<uiVars, entry, content, version, ppVars, parseVars, result, viewVars,
                   levelInfo, files, objectPositions, geoVars>>

LoadLevelObjectsReturn ==
    /\ pc = "objects"
    /\ objIdx > Len(levelInfo.objects)
    /\ pc' = "returned"
    /\ result' = "ok"
    /\ UNCHANGED <<uiVars, entry, content, version, ppVars, parseVars, viewVars,
                   levelInfo, files, objectPositions, objIdx, objects, geoVars>>

\* ---------------------------------------------------------- geometry view
\* Vertex tables: the right triangle of side 100 in the plane y = 0, a steep
\* triangle whose normal has a y component next to the threshold, a
\* triangle with an edge of length 2^31, and a triangle the squares of whose
\* cross product do not add up exactly in 24 bits.
VertexTables ==
    { << Text(<<Vertex(N(0), N(0), N(0))>>),
         Text(<<Vertex(Lit(FALSE, <<1, 0, 0>>), N(0), N(0))>>),
         Text(<<Vertex(N(0), N(0), Lit(FALSE, <<1, 0, 0>>))>>) >>,
      << Text(<<Vertex(N(0), N(0), N(0))>>),
         Text(<<Vertex(N(0), N(0), N(1))>>),
         Text(<<Vertex(Lit(FALSE, <<9, 9, 9>>), Lit(TRUE, <<9, 9, 8, 9, 5>>), N(1))>>) >>,
      << Text(<<Vertex(Lit(TRUE, <<1, 0, 7, 3, 7, 4, 1, 8, 2, 4>>), N(0), N(0))>>),
         Text(<<Vertex(Lit(FALSE, <<1, 0, 7, 3, 7, 4, 1, 8, 2, 4>>), N(0), N(0))>>),
         Text(<<Vertex(Lit(FALSE, <<1, 0, 7, 3, 7, 4, 1, 8, 2, 4>>), N(0), N(1))>>) >>,
      << Text(<<Vertex(N(0), N(0), N(0))>>),
         Text(<<Vertex(N(1), N(1), N(1))>>),
         Text(<<Vertex(Lit(FALSE, <<6, 0, 1, 0>>), N(1), N(0))>>) >> }

GeoTriLines ==
    { Text(<<TriInit("SURFACE_DEFAULT")>>),
      Text(<<Tri(N(0), N(1), N(2))>>),
      Text(<<Tri(N(0), N(2), N(1))>>),
      Text(<<Tri(N(0), N(0), N(0))>>) }

\* A level file of a vertex table and triangle lines is loaded into the
\* viewer.
InitGeo ==
    /\ entry = "FileHandler"
    /\ content \in { table \o tris : table \in VertexTables,
                                      tris \in SeqsFromZero(GeoTriLines, MaxGeoTris) }
    /\ version \in Versions
    /\ InitLocals

\* the double k units in the last place above the threshold, with sign s
NearThreshold(s, k) ==
    LET step == Num(IF k < 0 THEN 0 - 1 ELSE 1, FromNat(IF k < 0 THEN 0 - k ELSE k),
                    YThreshold.e)
        y == Sum(YThreshold, step)
    IN  IF s < 0 THEN Negated(y) ELSE y

\* y components: 0, 1, -1, the literal 0.0100001 and the doubles around the
\* thresholds 0.01 and -0.01
YValues ==
    { Zero, One, Negated(One), Divide(FromInt(100001), FromInt(10000000)) }
    \cup { NearThreshold(s, k) : s \in {0 - 1, 1}, k \in (0 - MaxUlps)..MaxUlps }

Normals == [x : {Zero, One, Negated(One)}, y : YValues, z : {Zero, One, Negated(One)}]

\* MeshCreator.classifyTriangleGeometry is called on a normal.
InitClassify ==
    /\ entry = "MeshCreator"
    /\ content \in Normals
    /\ version = "US"
    /\ InitLocals

\* classifyTriangleGeometry(normal) returns
ClassifyNormal ==
    /\ pc = "start"
    /\ entry = "MeshCreator"
    /\ info' = [normal |-> content, geometryType |-> ClassifyTriangleGeometry(content)]
    /\ pc' = "returned"
    /\ result' = "ok"
    /\ UNCHANGED <<uiVars, entry, content, version, ppVars, parseVars, viewVars, objVars,
                   geometryClasses, stats, viewMode>>

\* ------------------------------------------------------- object transform
\* THREE.MathUtils.DEG2RAD = Math.PI / 180 = 3.141592653589793 / 180 =
\* 0.017453292519943295
Deg2Rad == [s |-> 1, m |-> <<7481, 17573, 32026, 142>>, e |-> 0 - 58]

\* THREE.MathUtils.degToRad(degrees) = degrees * DEG2RAD
DegToRad(degrees) == Times(FromInt(degrees), Deg2Rad)

\* degToRad(45) = 0.7853981633974483 and degToRad(90) = 1.5707963267948966
QuarterPi == [s |-> 1, m |-> <<1443, 21777, 4349, 25>>, e |-> 0 - 50]
HalfPi == [s |-> 1, m |-> <<1443, 21777, 4349, 25>>, e |-> 0 - 49]

\* Math.cos and Math.sin at the radians of 0, 45 and 90 degrees:
\* cos 0.7853981633974483 = 0.7071067811865476,
\* sin 0.7853981633974483 = 0.7071067811865475,
\* cos 1.5707963267948966 = 6.123233995736766e-17
MathCos(x) ==
    CASE x = Zero -> One
      [] x = QuarterPi -> [s |-> 1, m |-> <<15309, 19710, 633, 181>>, e |-> 0 - 53]
      [] x = HalfPi -> [s |-> 1, m |-> <<23559, 26152, 6296, 141>>, e |-> 0 - 106]

MathSin(x) ==
    CASE x = Zero -> Zero
      [] x = QuarterPi -> [s |-> 1, m |-> <<20211, 13119, 8350, 45>>, e |-> 0 - 51]
      [] x = HalfPi -> One

\* a row of a Matrix4: the factors of x, y and z and the translation
Row(x, y, z, w) == [x |-> x, y |-> y, z |-> z, w |-> w]

\* Matrix4.makeRotationFromEuler for the order XYZ, from a = cos x, b = sin x,
\* c = cos y, d = sin y, e = cos z, f = sin z; its rows are the elements
\* (0, 4, 8, 12), (1, 5, 9, 13) and (2, 6, 10, 14)
RotationOf(a, b, c, d, e, f) ==
    [x |-> Row(Times(c, e), Negated(Times(c, f)), d, Zero),
     y |-> Row(Plus(Times(a, f), Times(Times(b, e), d)),
               Minus(Times(a, e), Times(Times(b, f), d)),
               Negated(Times(b, c)), Zero),
     z |-> Row(Minus(Times(b, f), Times(Times(a, e), d)),
               Plus(Times(b, e), Times(Times(a, f), d)),
               Times(a, c), Zero)]

MakeRotationFromEuler(x, y, z) ==
    RotationOf(MathCos(x), MathSin(x), MathCos(y), MathSin(y), MathCos(z), MathSin(z))

\* Matrix4.setPosition(x, y, z)
SetPosition(matrix, position) ==
    [c \in Axes |-> [matrix[c] EXCEPT !.w = FromInt(position[c])]]

\* Vector3.applyMatrix4 (the divisor w is 1 / (0x + 0y + 0z + 1) = 1)
ApplyMatrix4(vec, matrix) ==
    Vector([c \in Axes |->
        Plus(Plus(Plus(Times(matrix[c].x, vec.x), Times(matrix[c].y, vec.y)),
                  Times(matrix[c].z, vec.z)),
             matrix[c].w)])

\* the largest integer not above value
Floor(value) ==
    IF value.s = 0 \/ value.e >= 0 THEN value
    ELSE IF value.s > 0 THEN Num(1, IntegerPart(value), 0)
    ELSE Num(0 - 1, BigAdd(IntegerPart(value), <<1>>), 0)

\* Math.round(value): the nearest integer, halves upwards
MathRound(value) == Floor(Sum(value, [s |-> 1, m |-> <<1>>, e |-> 0 - 1]))

\* Math.round(vec.x * 100) / 100 for each coordinate
RoundedForDisplay(vec) ==
    Vector([c \in Axes |-> Divide(MathRound(Times(vec[c], FromInt(100))), FromInt(100))])

\* MeshCreator.transformVertex(vertex, objectPosition)
TransformVertex(vertex, objectPosition) ==
    RoundedForDisplay(
        ApplyMatrix4(Vector3(vertex),
                     SetPosition(MakeRotationFromEuler(DegToRad(objectPosition.angleX),
                                                       DegToRad(objectPosition.angleY),
                                                       DegToRad(objectPosition.angleZ)),
                                 objectPosition)))

\* object-local vertices and placements of an object: angles of 0, 45 and 90
\* degrees about each axis
LocalVertices ==
    { [x |-> 1, y |-> 0, z |-> 0], [x |-> 0, y |-> 0, z |-> 100],
      [x |-> 3, y |-> 0 - 4, z |-> 5] }

Placements ==
    [x : {0, 10}, y : {0}, z : {0, 0 - 5},
     angleX : {0, 45, 90}, angleY : {0, 45, 90}, angleZ : {0, 45, 90}]

\* An object with one vertex is placed in the level.
InitTransform ==
    /\ entry = "createMesh"
    /\ content \in [vertex : LocalVertices, position : Placements]
    /\ version = "US"
    /\ InitLocals

\* createMesh: the object mesh gets the placement's position and its angles
\* converted to radians as rotation
CreateObjectMesh ==
    /\ pc = "start"
    /\ entry = "createMesh"
    /\ mesh' = [position |-> Vector3(content.position),
                rotation |-> [x |-> DegToRad(content.position.angleX),
                              y |-> DegToRad(content.position.angleY),
                              z |-> DegToRad(content.position.angleZ)],
                vertex |-> Vector3(content.vertex)]
    /\ pc' = "loaded"
    /\ UNCHANGED <<uiVars, entry, content, version, ppVars, parseVars, result, viewerTriangles,
                   selected, objVars, geoVars>>

\* getTriangleDataFromIntersection on the object mesh: the vertex is
\* transformed for the info panel
TransformObjectVertex ==
    /\ pc = "loaded"
    /\ entry = "createMesh"
    /\ info' = [world |-> TransformVertex(content.vertex, content.position)]
    /\ pc' = "returned"
    /\ result' = "ok"
    /\ UNCHANGED <<uiVars, entry, content, version, ppVars, parseVars, viewVars, objVars,
                   geometryClasses, stats, viewMode>>

\* ------------------------------------------------------------ file loading
\* The level files of the dropdown: one with VERSION_JP blocks, one without,
\* and one without any triangle.
LevelFiles ==
    [ castle |-> << Directive("#ifdef VERSION_JP"), Text(<<Vertex(N(1), N(1), N(1))>>),
                    Directive("#else"), Text(<<Vertex(N(2), N(2), N(2))>>),
                    Directive("#endif"), Text(<<Tri(N(0), N(0), N(0))>>) >>,
      bob |-> << Text(<<Vertex(N(1), N(1), N(1))>>), Text(<<Tri(N(0), N(0), N(0))>>) >>,
      empty |-> << Text(<<Vertex(N(1), N(1), N(1))>>) >> ]

\* parseCollisionFile throws 'No valid triangles found in file': no line of
\* the text yields a triangle, that is, every line is a COL_TRI_INIT line, has
\* no COL_TRI statement, or has a first COL_TRI statement with an index that
\* is not below the number of COL_VERTEX statements of the text
NoTrianglesFound(c) ==
    \A i \in 1..Len(c) :
        \/ FirstMatch(c[i].toks, "COL_TRI_INIT", 1) # 0
        \/ FirstMatch(c[i].toks, "COL_TRI", 1) = 0
        \/ ~Accepts(c[i].toks[FirstMatch(c[i].toks, "COL_TRI", 1)],
                    VertexMatches(Flatten(c)))

\* loadLocalFile(fileInfoJson) up to its first await: the download is started
LoadLocalFile(file) == Append(loads, [file |-> file, at |-> "download", version |-> ""])

\* populateFileDropdown: the values of the options, the default option
\* 'Choose a level to explore...' with the value '' first
DropdownOptions == {""} \cup DOMAIN LevelFiles

\* value.startsWith('{'): the value is the JSON text of a file of the list
IsFileInfo(value) == value \in DOMAIN LevelFiles

\* fileSelect.onchange: another option is chosen in the dropdown. The default
\* option starts nothing; a file of the list is loaded; for any other value
\* the handler calls fileHandler.loadFile, which does not exist, and ends
\* with a TypeError.
FileSelectOnChange ==
    /\ \E value \in DropdownOptions \ {fileSelect} :
          /\ fileSelect' = value
          /\ IF value = ""
             THEN UNCHANGED loads
             ELSE IF IsFileInfo(value)
             THEN /\ Len(loads) < MaxLoads
                  /\ loads' = LoadLocalFile(value)
             ELSE UNCHANGED loads
    /\ UNCHANGED <<entry, content, version, pc, ppVars, parseVars, result, viewVars,
                   objVars, geoVars, selectedVersion, viewerData, meshBuilds,
                   uploads,
                   orbitVars, netVars>>

\* toggleContainer.onclick: the toggle flips and the selected file, if any,
\* is reloaded
ToggleContainerOnClick ==
    /\ ~IsFileInfo(fileSelect) \/ Len(loads) < MaxLoads
    /\ selectedVersion' = IF selectedVersion = "US" THEN "JP" ELSE "US"
    /\ loads' = IF fileSelect # "" /\ IsFileInfo(fileSelect)
                THEN LoadLocalFile(fileSelect) ELSE loads
    /\ UNCHANGED <<entry, content, version, pc, ppVars, parseVars, result, viewVars,
                   objVars, geoVars, fileSelect, viewerData, meshBuilds,
                   uploads,
                   orbitVars, netVars>>

\* loadLocalFile after await downloadCollisionFile: the toggle is read, the
\* text is parsed and loadLevelObjects is awaited; a text without triangles
\* makes parseCollisionFile throw, and the catch block resets the dropdown
DownloadResolves ==
    /\ \E i \in 1..Len(loads) :
          /\ loads[i].at = "download"
          /\ IF NoTrianglesFound(LevelFiles[loads[i].file])
             THEN /\ loads' = [loads EXCEPT ![i].at = "failed"]
                  /\ fileSelect' = ""
             ELSE /\ loads' = [loads EXCEPT
                                 ![i].at = "objects",
                                 ![i].version = SelectedVersion(LevelFiles[loads[i].file],
                                                                selectedVersion)]
                  /\ UNCHANGED fileSelect
    /\ UNCHANGED <<entry, content, version, pc, ppVars, parseVars, result, viewVars,
                   objVars, geoVars, selectedVersion, viewerData, meshBuilds,
                   uploads,
                   orbitVars, netVars>>

\* the catch block also empties the viewer
DownloadRejectsClearsViewer ==
    /\ \E i \in 1..Len(loads) :
          /\ loads[i].at = "download"
          /\ loads' = [loads EXCEPT ![i].at = "failed"]
    /\ fileSelect' = ""
    /\ viewerData' = NoData
    /\ UNCHANGED <<entry, content, version, pc, ppVars, parseVars, result, viewVars,
                   objVars, geoVars, selectedVersion, meshBuilds,
                   uploads,
                   orbitVars, netVars>>

\* downloadCollisionFile rejects: the catch block resets the dropdown
DownloadRejects ==
    /\ \E i \in 1..Len(loads) :
          /\ loads[i].at = "download"
          /\ loads' = [loads EXCEPT ![i].at = "failed"]
    /\ fileSelect' = ""
    /\ UNCHANGED <<entry, content, version, pc, ppVars, parseVars, result, viewVars,
                   objVars, geoVars, selectedVersion, viewerData, meshBuilds,
                   uploads,
                   orbitVars, netVars>>

\* loadLocalFile after await loadLevelObjects: viewer.loadCollisionData
ObjectsResolve ==
    /\ \E i \in 1..Len(loads) :
          /\ loads[i].at = "objects"
          /\ loads' = [loads EXCEPT ![i].at = "done"]
          /\ viewerData' = [file |-> loads[i].file, version |-> loads[i].version]
    /\ meshBuilds' = meshBuilds + 1
    /\ UNCHANGED <<entry, content, version, pc, ppVars, parseVars, result, viewVars,
                   objVars, geoVars, selectedVersion, fileSelect, uploads,
                   orbitVars, netVars>>

\* The files given to the file input: a collision text, a text whose only
\* COL_TRI statement names vertices that do not exist, a JSON file of
\* collision data, a file that is not JSON, the JSON text null, and a JSON
\* file whose triangle has no vertices. data tells what JSON.parse returns.
UploadedFiles ==
    [ level_c |-> [json |-> FALSE, valid |-> TRUE, data |-> "", text |-> LevelFiles.bob],
      notes_c |-> [json |-> FALSE, valid |-> TRUE, data |-> "",
                   text |-> << Text(<<Vertex(N(1), N(1), N(1))>>),
                               Text(<<Tri(N(0), N(1), N(2))>>) >>],
      data_json |-> [json |-> TRUE, valid |-> TRUE, data |-> "collision", text |-> <<>>],
      broken_json |-> [json |-> TRUE, valid |-> FALSE, data |-> "", text |-> <<>>],
      null_json |-> [json |-> TRUE, valid |-> TRUE, data |-> "null", text |-> <<>>],
      badtri_json |-> [json |-> TRUE, valid |-> TRUE, data |-> "badTriangle",
                       text |-> <<>>] ]

\* what the try block of a FileHandler load ends with for a file:
\* "parse" when JSON.parse or parseCollisionFile throws; "null" when
\* loadCollisionData throws reading triangleData.triangles, before any
\* assignment; "mesh" when loadCollisionData has assigned the data and
\* createMesh throws on them; "loaded" otherwise
TryOutcome(file) ==
    IF file.json
    THEN IF ~file.valid THEN "parse"
         ELSE IF file.data = "null" THEN "null"
         ELSE IF file.data = "badTriangle" THEN "mesh"
         ELSE "loaded"
    ELSE IF NoTrianglesFound(file.text) THEN "parse" ELSE "loaded"

\* loadCollisionData reached its assignments
DataAssigned(ending) == ending \in {"mesh", "loaded"}

\* the position a FileHandler load is left at by its try block
AtAfterTry(ending) ==
    CASE ending = "parse" -> "failed"
      [] ending = "null" -> "threw"
      [] ending = "mesh" -> "threw"
      [] ending = "loaded" -> "done"

\* handleFileLoad(event): a FileReader is started on the chosen file
HandleFileLoad(name) ==
    /\ Len(uploads) < MaxUploads
    /\ uploads' = Append(uploads, [via |-> "handleFileLoad", file |-> name,
                                   from |-> "FileReader", at |-> "reading"])
    /\ UNCHANGED <<entry, content, version, pc, ppVars, parseVars, result, viewVars,
                   objVars, geoVars, selectedVersion, fileSelect, loads,
                   orbitVars, netVars,
                   viewerData, meshBuilds>>

\* reader.onload: JSON.parse or parseCollisionFile, then
\* viewer.loadCollisionData, all inside the try block; the catch block alerts
ReaderOnLoad(i) ==
    /\ uploads[i].at = "reading"
    /\ LET ending == TryOutcome(UploadedFiles[uploads[i].file])
       IN  /\ uploads' = [uploads EXCEPT ![i].at = AtAfterTry(ending)]
           /\ viewerData' = IF DataAssigned(ending)
                            THEN [file |-> uploads[i].file, version |-> ""]
                            ELSE viewerData
           /\ meshBuilds' = IF DataAssigned(ending) THEN meshBuilds + 1 ELSE meshBuilds
    /\ UNCHANGED <<entry, content, version, pc, ppVars, parseVars, result, viewVars,
                   objVars, geoVars, selectedVersion, fileSelect, loads,
                   orbitVars, netVars>>

\* the file names loadSpecificFile is called with: loadSampleData passes
\* './data/bitfs_tris.inc.c', to which loadSpecificFile prepends './data/'
\* and, in its catch block, '../' (the from field of the load)
SampleFiles == {"./data/bitfs_tris.inc.c"}

\* what a fetch of loadSpecificFile settles with: a response that is ok, a
\* response that is not, or a rejection
FetchSettlements == {"ok", "notOk", "rejected"}

\* what response.text() settles with: a rejection, or a text, with or
\* without triangles
SampleAnswers ==
    { [ok |-> FALSE, text |-> <<>>],
      [ok |-> TRUE, text |-> LevelFiles.bob],
      [ok |-> TRUE, text |-> LevelFiles.empty] }

\* loadSpecificFile(filename) up to its first await: fetch('./data/' + filename)
LoadSpecificFile(filename) ==
    /\ Len(uploads) < MaxUploads
    /\ uploads' = Append(uploads, [via |-> "loadSpecificFile", file |-> filename,
                                   from |-> "./data/", at |-> "fetch"])
    /\ UNCHANGED <<entry, content, version, pc, ppVars, parseVars, result, viewVars,
                   objVars, geoVars, selectedVersion, fileSelect, loads,
                   orbitVars, netVars,
                   viewerData, meshBuilds>>

\* the first fetch settles: an ok response is read with response.text(); a
\* rejection or a status that is not ok goes to the catch block, which
\* fetches '../' + filename
SpecificFileResponds(i, settlement) ==
    /\ uploads[i].at = "fetch"
    /\ uploads' = [uploads EXCEPT
          ![i].at = IF settlement = "ok" THEN "text" ELSE "fallback",
          ![i].from = IF settlement = "ok" THEN "./data/" ELSE "../"]
    /\ UNCHANGED <<entry, content, version, pc, ppVars, parseVars, result, viewVars,
                   objVars, geoVars, selectedVersion, fileSelect, loads,
                   orbitVars, netVars,
                   viewerData, meshBuilds>>

\* response.text() of the first fetch settles: the text is parsed and
\* loaded; a rejection or a parse error goes to the catch block, which
\* fetches '../' + filename
SpecificFileArrives(i, answer) ==
    /\ uploads[i].at = "text"
    /\ LET loaded == answer.ok /\ ~NoTrianglesFound(answer.text)
       IN  /\ uploads' = [uploads EXCEPT
                 ![i].at = IF loaded THEN "done" ELSE "fallback",
                 ![i].from = IF loaded THEN "./data/" ELSE "../"]
           /\ viewerData' = IF loaded THEN [file |-> uploads[i].file, version |-> ""]
                            ELSE viewerData
           /\ meshBuilds' = IF loaded THEN meshBuilds + 1 ELSE meshBuilds
    /\ UNCHANGED <<entry, content, version, pc, ppVars, parseVars, result, viewVars,
                   objVars, geoVars, selectedVersion, fileSelect, loads,
                   orbitVars, netVars>>

\* the fetch of the catch block settles: an ok response is read with
\* response.text(); for another status, or in the inner catch block for a
\* rejection, showLoadError is called
FallbackFileResponds(i, settlement) ==
    /\ uploads[i].at = "fallback"
    /\ uploads' = [uploads EXCEPT ![i].at = IF settlement = "ok" THEN "fallbackText"
                                            ELSE "failed"]
    /\ UNCHANGED <<entry, content, version, pc, ppVars, parseVars, result, viewVars,
                   objVars, geoVars, selectedVersion, fileSelect, loads,
                   orbitVars, netVars,
                   viewerData, meshBuilds>>

\* response.text() of the fallback fetch settles: the text is parsed and
\* loaded, or the inner catch block calls showLoadError
FallbackFileArrives(i, answer) ==
    /\ uploads[i].at = "fallbackText"
    /\ LET loaded == answer.ok /\ ~NoTrianglesFound(answer.text)
       IN  /\ uploads' = [uploads EXCEPT ![i].at = IF loaded THEN "done" ELSE "failed"]
           /\ viewerData' = IF loaded THEN [file |-> uploads[i].file, version |-> ""]
                            ELSE viewerData
           /\ meshBuilds' = IF loaded THEN meshBuilds + 1 ELSE meshBuilds
    /\ UNCHANGED <<entry, content, version, pc, ppVars, parseVars, result, viewVars,
                   objVars, geoVars, selectedVersion, fileSelect, loads,
                   orbitVars, netVars>>

\* The page is open and no file has been chosen.
InitLoad ==
    /\ entry = "UIControls"
    /\ content = <<>>
    /\ version = "US"
    /\ InitLocals

\* ---------------------------------------------------------------- toInt32
\* integers next to the multiples of 2^31, up to MaxWraps times 2^31, of
\* either sign
Int32Values ==
    { Num(s, BigAdd(ShiftLeft(FromNat(q), 31), FromNat(r)), 0) :
        s \in {0 - 1, 1}, q \in 0..MaxWraps,
        r \in {0, 1, 2, 65536, 1073741824, 2147483645, 2147483646, 2147483647} }

\* toInt32 is called on an integer.
InitInt32 ==
    /\ entry = "toInt32"
    /\ content \in Int32Values
    /\ version = "US"
    /\ InitLocals

\* toInt32(value) returns value | 0
CallToInt32 ==
    /\ pc = "start"
    /\ entry = "toInt32"
    /\ info' = [value |-> ToInt32(content)]
    /\ pc' = "returned"
    /\ result' = "ok"
    /\ UNCHANGED <<uiVars, entry, content, version, ppVars, parseVars, viewVars, objVars,
                   geometryClasses, stats, viewMode>>

Next ==
    \/ ParseCollisionFileBegin
    \/ ParseObjectCollisionBegin
    \/ ScanVertices
    \/ ScanLine
    \/ ParseReturn
    \/ LoadCollisionData
    \/ HandleTriangleSelection

NextPre ==
    \/ PreprocessBegin
    \/ ParseObjectCollisionBegin
    \/ PreprocessLine
    \/ PreprocessReturn
    \/ ScanVertices
    \/ ScanLine
    \/ ParseReturn

\* loadLocalFile: parse the level file and hand the result to the viewer
NextLevel ==
    \/ ParseCollisionFileBegin
    \/ ScanVertices
    \/ ScanLine
    \/ ParseReturn
    \/ LoadCollisionData

\* loadLevelObjects, with parseObjectCollision called for each object file
NextObj ==
    \/ LoadLevelObjectsBegin
    \/ LoadObject
    \/ ParseObjectCollisionBegin
    \/ ScanVertices
    \/ ScanLine
    \/ ParseReturn
    \/ PlaceObject
    \/ LoadLevelObjectsReturn

\* a level file is loaded and looked at in both view modes
NextGeo ==
    \/ ParseCollisionFileBegin
    \/ ScanVertices
    \/ ScanLine
    \/ ParseReturn
    \/ LoadCollisionData
    \/ ToggleViewMode
    \/ HandleTriangleSelection

NextClassify == ClassifyNormal

Spec == Init /\ [][Next]_vars

SpecPre == InitPre /\ [][NextPre]_vars

SpecLevel == InitLevel /\ [][NextLevel]_vars

SpecObj == InitObj /\ [][NextObj]_vars

SpecGeo == InitGeo /\ [][NextGeo]_vars

SpecClassify == InitClassify /\ [][NextClassify]_vars

SpecInt32 == InitInt32 /\ [][CallToInt32]_vars

\* the dropdown, the version toggle and the promises of loadLocalFile
NextLoad ==
    \/ FileSelectOnChange
    \/ ToggleContainerOnClick
    \/ DownloadResolves
    \/ DownloadRejects
    \/ ObjectsResolve
    \/ \E name \in DOMAIN UploadedFiles : HandleFileLoad(name)
    \/ \E i \in 1..Len(uploads) : ReaderOnLoad(i)
    \/ \E filename \in SampleFiles : LoadSpecificFile(filename)
    \/ \E i \in 1..Len(uploads) : \E settlement \in FetchSettlements :
          SpecificFileResponds(i, settlement)
    \/ \E i \in 1..Len(uploads) : \E answer \in SampleAnswers : SpecificFileArrives(i, answer)
    \/ \E i \in 1..Len(uploads) : \E settlement \in FetchSettlements :
          FallbackFileResponds(i, settlement)
    \/ \E i \in 1..Len(uploads) : \E answer \in SampleAnswers : FallbackFileArrives(i, answer)

SpecLoad == InitLoad /\ [][NextLoad]_vars

NextTransform == CreateObjectMesh \/ TransformObjectVertex

SpecTransform == InitTransform /\ [][NextTransform]_vars

\* ================================================================ claims
\* the parser has scanned the vertices and is in, or past, the line loop
Scanning == pc \in {"lines", "done", "loaded"}

\* the COL_TRI statements of a text, as <<line, position on the line>>
TriStatements(ls) ==
    { <<i, j>> \in (1..Len(ls)) \X (1..3) :
        j <= Len(ls[i].toks) /\ ls[i].toks[j].k = "COL_TRI" }

StatementInRange(tok, n) ==
    ParseInt(tok.a) < n /\ ParseInt(tok.b) < n /\ ParseInt(tok.c) < n

\* the line holds no marker and its leftmost COL_TRI statement is out of range
ScansOutOfRange(line, n) ==
    /\ \A j \in 1..Len(line.toks) : line.toks[j].k # "COL_TRI_INIT"
    /\ \E j \in 1..Len(line.toks) :
          /\ line.toks[j].k = "COL_TRI"
          /\ \A h \in 1..(j - 1) : line.toks[h].k # "COL_TRI"
          /\ ~StatementInRange(line.toks[j], n)

C1Inv ==
    Scanning =>
        \A k \in 1..Len(triangles) :
            \E st \in TriStatements(processedContent) :
                LET tok == processedContent[st[1]].toks[st[2]]
                IN  /\ StatementInRange(tok, Len(vertices))
                    /\ triangles[k].vertex1 = vertices[ParseInt(tok.a) + 1]
                    /\ triangles[k].vertex2 = vertices[ParseInt(tok.b) + 1]
                    /\ triangles[k].vertex3 = vertices[ParseInt(tok.c) + 1]

C1Step ==
    (/\ pc = "lines"
     /\ lineIdx <= Len(processedContent)
     /\ ScansOutOfRange(processedContent[lineIdx], Len(vertices)))
    => /\ triangles' = triangles
       /\ result' = "none"
       /\ pc' = "lines"
       /\ lineIdx' = lineIdx + 1

\* C1: every triangle of the parser comes from a COL_TRI statement whose three
\* indices are below the number of parsed vertices; scanning a statement with
\* an index at or past the vertex count pushes nothing, raises no error and
\* moves on to the next line.
C1_TrianglesReferenceParsedVertices == [](C1Inv) /\ [][C1Step]_vars

\* an out-of-range statement was dropped and a later line was accepted
C1_Witness ==
    /\ pc = "done"
    /\ result = "ok"
    /\ Len(triangles) >= 1
    /\ \E i \in 1..Len(processedContent) : \E j \in (i + 1)..Len(processedContent) :
          /\ ScansOutOfRange(processedContent[i], Len(vertices))
          /\ \E h \in 1..Len(processedContent[j].toks) :
                /\ processedContent[j].toks[h].k = "COL_TRI"
                /\ StatementInRange(processedContent[j].toks[h], Len(vertices))

\* C2: every parse entry point fails when no triangle was accepted; none
\* returns an empty triangle list.
C2_EmptyResultIsAnError ==
    (pc = "done" /\ entry \in {"FileHandler", "LevelLoader", "CollisionFileManager"}
        /\ Len(triangles) = 0)
    => result = "error"

\* the symbol of the last COL_TRI_INIT statement of the lines before line i,
\* the default sentinel when there is none
RECURSIVE MostRecentMarker(_, _)
MostRecentMarker(ls, i) ==
    IF i <= 1 THEN "SURFACE_DEFAULT"
    ELSE LET toks == ls[i - 1].toks
             ms == { j \in 1..Len(toks) : toks[j].k = "COL_TRI_INIT" }
         IN  IF ms = {} THEN MostRecentMarker(ls, i - 1)
             ELSE toks[CHOOSE j \in ms : \A h \in ms : h <= j].s

C3Step ==
    (pc = "lines" /\ Len(triangles') = Len(triangles) + 1)
    => triangles'[Len(triangles')].surface_type = MostRecentMarker(processedContent, lineIdx)

\* C3: an accepted triangle carries the symbol of the most recent COL_TRI_INIT
\* marker that precedes it in the text, SURFACE_DEFAULT when none precedes it.
C3_SurfaceIsMostRecentMarker == [][C3Step]_vars

\* ------------------------------------------------ claims on preprocessing
\* preprocessVersionDirectives has run over the whole text and returned
PreDone == pc # "preprocess" /\ idx > Len(content)

IsPlain(line) == line.dir = ""

DirectivePrefixes ==
    {"#ifdef VERSION_JP", "#ifndef VERSION_JP", "#ifdef OTHER", "#else", "#endif"}

\* the text is '#ifdef VERSION_JP' or '#ifndef VERSION_JP', lines, '#else',
\* lines, '#endif', the lines between the directives being statement lines;
\* e is the position of the '#else'
IsIfElseForm(c, e) ==
    /\ Len(c) >= 3
    /\ c[1].dir \in {"#ifdef VERSION_JP", "#ifndef VERSION_JP"}
    /\ c[Len(c)].dir = "#endif"
    /\ e \in 2..(Len(c) - 1)
    /\ c[e].dir = "#else"
    /\ \A i \in 2..(Len(c) - 1) : i # e => IsPlain(c[i])

\* #ifdef VERSION_JP / COL_VERTEX(1,1,1) / #else / COL_VERTEX(2,2,2) / #endif
C4Example ==
    << Directive("#ifdef VERSION_JP"),
       Text(<<Vertex(N(1), N(1), N(1))>>),
       Directive("#else"),
       Text(<<Vertex(N(2), N(2), N(2))>>),
       Directive("#endif") >>

\* C4: for '#ifdef VERSION_JP / A / #else / B / #endif' the preprocessor
\* outputs exactly A for JP and exactly B otherwise, and the reverse for
\* '#ifndef VERSION_JP'; the example text parses to the single vertex (1,1,1)
\* for JP and (2,2,2) for the other version.
C4_IfElseSelectsBranch ==
    /\ PreDone =>
          \A e \in 1..Len(content) :
              IsIfElseForm(content, e) =>
                  LET A == SubSeq(content, 2, e - 1)
                      B == SubSeq(content, e + 1, Len(content) - 1)
                      first == (content[1].dir = "#ifdef VERSION_JP") <=> (version = "JP")
                  IN  processedLines = IF first THEN A ELSE B
    /\ (pc = "done" /\ entry = "LevelLoader" /\ content = C4Example) =>
          vertices = IF version = "JP" THEN <<[x |-> 1, y |-> 1, z |-> 1]>>
                                       ELSE <<[x |-> 2, y |-> 2, z |-> 2]>>

\* parseObjectCollision has parsed the example text for the US version
C4_Witness ==
    /\ pc = "done"
    /\ entry = "LevelLoader"
    /\ content = C4Example
    /\ version = "US"
    /\ processedLines = <<Text(<<Vertex(N(2), N(2), N(2))>>)>>
    /\ vertices = <<[x |-> 2, y |-> 2, z |-> 2]>>

\* The conditional blocks open before line p of a text, innermost last, as a
\* C preprocessor nests them: jp tells a block that tests VERSION_JP, neg an
\* #ifndef, inElse that its #else has been passed.
RECURSIVE OpenBlocks(_, _)
OpenBlocks(c, p) ==
    IF p <= 1 THEN <<>>
    ELSE LET st == OpenBlocks(c, p - 1)
             d == c[p - 1].dir
         IN  CASE d = "#ifdef VERSION_JP" -> Append(st, [jp |-> TRUE, neg |-> FALSE, inElse |-> FALSE])
               [] d = "#ifndef VERSION_JP" -> Append(st, [jp |-> TRUE, neg |-> TRUE, inElse |-> FALSE])
               [] d = "#ifdef OTHER" -> Append(st, [jp |-> FALSE, neg |-> FALSE, inElse |-> FALSE])
               [] d = "#else" ->
                    IF st = <<>> THEN st
                    ELSE [st EXCEPT ![Len(st)].inElse = TRUE]
               [] d = "#endif" ->
                    IF st = <<>> THEN st ELSE SubSeq(st, 1, Len(st) - 1)
               [] OTHER -> st

\* every #else and #endif has an open block and every block is closed
ProperlyNested(c) ==
    /\ \A p \in 1..Len(c) :
          c[p].dir \in {"#else", "#endif"} => OpenBlocks(c, p) # <<>>
    /\ \A p \in 1..Len(c) :
          c[p].dir = "#else" => ~OpenBlocks(c, p)[Len(OpenBlocks(c, p))].inElse
    /\ OpenBlocks(c, Len(c) + 1) = <<>>

\* more #endif lines than opened blocks, or a block that is never closed
MalformedNesting(c) ==
    \/ \E p \in 1..Len(c) : c[p].dir = "#endif" /\ OpenBlocks(c, p) = <<>>
    \/ OpenBlocks(c, Len(c) + 1) # <<>>

JpBlocks(st) == { i \in 1..Len(st) : st[i].jp }

\* the branch of a VERSION_JP block the position is in is the selected one
BranchSelected(b, v) == ((v = "JP") <=> ~b.neg) <=> ~b.inElse

\* line p is outside every VERSION_JP block, or inside one whose branch at p
\* is the selected one
IncludedByOuterBlock(c, p, v) ==
    LET st == OpenBlocks(c, p)
    IN  \A i \in JpBlocks(st) : BranchSelected(st[i], v)

RECURSIVE PlainLines(_)
PlainLines(ls) ==
    IF ls = <<>> THEN <<>>
    ELSE IF IsPlain(ls[1]) THEN <<ls[1]>> \o PlainLines(Tail(ls))
    ELSE PlainLines(Tail(ls))

RECURSIVE ExpectedPlainLines(_, _, _)
ExpectedPlainLines(c, p, v) ==
    IF p > Len(c) THEN <<>>
    ELSE IF IsPlain(c[p]) /\ IncludedByOuterBlock(c, p, v)
         THEN <<c[p]>> \o ExpectedPlainLines(c, p + 1, v)
         ELSE ExpectedPlainLines(c, p + 1, v)

\* no statement line lies inside two VERSION_JP blocks at once
AtMostOneJpBlock(c) ==
    \A p \in 1..Len(c) : IsPlain(c[p]) => Cardinality(JpBlocks(OpenBlocks(c, p))) <= 1

\* C5: for properly nested input a VERSION_JP block ends at its own matching
\* #endif whatever is nested inside it: a line after an inner block's #endif
\* and before the outer #endif follows the outer block's branch, a line after
\* the outer #endif is included.
C5_BlockEndsAtMatchingEndif ==
    (PreDone /\ ProperlyNested(content) /\ AtMostOneJpBlock(content))
    => PlainLines(processedLines) = ExpectedPlainLines(content, 1, version)

\* C6: no line of the preprocessor's output starts with #ifdef, #ifndef, #else
\* or #endif.
C6_OutputHasNoDirectiveLine ==
    PreDone => \A i \in 1..Len(processedLines) : processedLines[i].dir \notin DirectivePrefixes

\* C7: preprocessing a text with more #endif lines than opened blocks, or with
\* a block that is never closed, fails with an error.
C7_MalformedNestingIsFatal ==
    (pc = "done" /\ entry = "Preprocess" /\ MalformedNesting(content)) => result = "error"

\* ------------------------------------------------- claims on the results
\* C8: the number of triangles returned is at most the number of COL_TRI
\* statements of the scanned text, and equal to it when every COL_TRI
\* statement references only parsed vertices, also when statements share a
\* line.
C8_TriangleCountMatchesStatements ==
    (pc = "done" /\ result = "ok") =>
        LET sts == TriStatements(processedContent)
        IN  /\ Len(triangles) <= Cardinality(sts)
            /\ (\A st \in sts :
                    StatementInRange(processedContent[st[1]].toks[st[2]], Len(vertices)))
               => Len(triangles) = Cardinality(sts)

\* the positions of the COL_VERTEX statements in the text read left to right
VertexOccurrences(toks) == { q \in 1..Len(toks) : toks[q].k = "COL_VERTEX" }

\* the position of the i-th COL_VERTEX statement
Occurrence(toks, i) ==
    CHOOSE q \in VertexOccurrences(toks) :
        Cardinality({ r \in VertexOccurrences(toks) : r <= q }) = i

C9Inv ==
    Scanning =>
        LET toks == Flatten(processedContent)
        IN  /\ Len(vertices) = Cardinality(VertexOccurrences(toks))
            /\ \A i \in 1..Len(vertices) :
                  LET tok == toks[Occurrence(toks, i)]
                  IN  vertices[i] = [x |-> ParseInt(tok.a), y |-> ParseInt(tok.b),
                                     z |-> ParseInt(tok.c)]

C9Step == Scanning => vertices' = vertices

\* C9: the vertex sequence has one entry per COL_VERTEX statement of the
\* scanned text, in order of appearance, and is not changed afterwards.
C9_VerticesInOrderOfAppearance == [](C9Inv) /\ [][C9Step]_vars

\* three vertices were parsed, two of them from one line, one with a minus
\* sign and a leading zero
C9_Witness ==
    /\ pc = "done"
    /\ Len(vertices) = 3
    /\ vertices[3] = [x |-> 0 - 3, y |-> 4, z |-> 5]
    /\ vertices[1] # vertices[2]

\* the lines whose COL_TRI statement the line loop accepts
AcceptedLines(ls, n) ==
    { i \in 1..Len(ls) :
        /\ \A j \in 1..Len(ls[i].toks) : ls[i].toks[j].k # "COL_TRI_INIT"
        /\ \E j \in 1..Len(ls[i].toks) :
              /\ ls[i].toks[j].k = "COL_TRI"
              /\ \A h \in 1..(j - 1) : ls[i].toks[h].k # "COL_TRI"
              /\ StatementInRange(ls[i].toks[j], n) }

\* the k-th smallest element of a set of numbers
Kth(S, k) == CHOOSE i \in S : Cardinality({ h \in S : h <= i }) = k

\* the leftmost COL_TRI statement of a line
LeftmostTri(line) ==
    line.toks[CHOOSE j \in 1..Len(line.toks) :
                 /\ line.toks[j].k = "COL_TRI"
                 /\ \A h \in 1..(j - 1) : line.toks[h].k # "COL_TRI"]

C10Order ==
    LET acc == AcceptedLines(processedContent, Len(vertices))
    IN  /\ Len(triangles) = Cardinality(acc)
        /\ \A k \in 1..Len(triangles) :
              LET tok == LeftmostTri(processedContent[Kth(acc, k)])
              IN  /\ triangles[k].vertex1 = vertices[ParseInt(tok.a) + 1]
                  /\ triangles[k].vertex2 = vertices[ParseInt(tok.b) + 1]
                  /\ triangles[k].vertex3 = vertices[ParseInt(tok.c) + 1]

C10Mesh ==
    /\ viewerTriangles = triangles
    /\ Len(mesh.triangleIndex) = 3 * Len(triangles)
    /\ \A f \in 0..(Len(triangles) - 1) :
          /\ mesh.triangleIndex[3 * f + 1] = f
          /\ mesh.positions[3 * f + 1] = triangles[f + 1].vertex1
          /\ mesh.positions[3 * f + 2] = triangles[f + 1].vertex2
          /\ mesh.positions[3 * f + 3] = triangles[f + 1].vertex3
          /\ GetTriangleDataFromIntersection(mesh, f, viewerTriangles) = triangles[f + 1]

\* C10: the k-th triangle of the result is the k-th accepted COL_TRI
\* statement in line order, and the ordinal stored per triangle in the mesh
\* identifies the same triangle in viewer.triangles.
C10_TriangleOrderIsSourceOrder ==
    /\ pc \in {"done", "loaded"} => C10Order
    /\ pc = "loaded" => C10Mesh

\* two different triangles were accepted around a dropped statement, loaded
\* into the viewer, and the second one was picked through the mesh
C10_Witness ==
    /\ pc = "loaded"
    /\ Len(triangles) = 2
    /\ triangles[1] # triangles[2]
    /\ selected = triangles[2]
    /\ \E i \in 2..(Len(processedContent) - 1) :
          /\ ScansOutOfRange(processedContent[i], Len(vertices))
          /\ \E h \in 1..(i - 1) : h \in AcceptedLines(processedContent, Len(vertices))
          /\ \E h \in (i + 1)..Len(processedContent) :
                h \in AcceptedLines(processedContent, Len(vertices))

\* ------------------------------------------------------------------- C11
NoIfDirective(c) ==
    \A i \in 1..Len(c) :
        ~(\E p \in {"#ifdef", "#ifndef", "#else", "#endif"} : StartsWith(c[i].dir, p))
NoHashLine(c) == \A i \in 1..Len(c) : ~StartsWith(c[i].dir, "#")
NoVersionDirective(c) ==
    \A i \in 1..Len(c) : c[i].dir \notin {"#ifdef VERSION_JP", "#ifndef VERSION_JP"}

\* C11 as stated: preprocessing a text with no #ifdef/#ifndef/#else/#endif
\* line returns the text unchanged.
C11_NoIfDirectiveUnchanged ==
    (entry = "Preprocess" /\ PreDone /\ NoIfDirective(content))
        => processedLines = content

\* C11 amended: preprocessing a text with no line that starts with '#'
\* returns the text unchanged, and an object file with no VERSION_JP
\* directive is parsed from its unchanged text, so its vertices do not depend
\* on the selected version.
C11_NoHashLineUnchanged ==
    /\ (entry = "Preprocess" /\ PreDone /\ NoHashLine(content))
           => processedLines = content
    /\ (entry = "LevelLoader" /\ pc \in {"vertices", "lines", "done"} /\ NoVersionDirective(content))
           => processedContent = content
    /\ (entry = "LevelLoader" /\ pc = "done" /\ NoVersionDirective(content))
           => vertices = VertexMatches(Flatten(content))

C11_Witness ==
    /\ entry = "Preprocess"
    /\ PreDone
    /\ NoHashLine(content)
    /\ Len(content) >= 2
    /\ content[1] # content[2]
    /\ processedLines = content

\* ------------------------------------------------------------------- C12
\* the vertices of the statements that belong to the selected variant
VariantVertices(c, v) == VertexMatches(Flatten(ExpectedPlainLines(c, 1, v)))

\* C12: when a level file with properly nested VERSION_JP blocks is loaded,
\* the vertices parsed for the viewer are those of the selected variant's
\* statements and every triangle handed to the viewer is built from them.
C12_LevelGeometryIsVariantResolved ==
    (pc = "loaded" /\ HasVersions(content) /\ ProperlyNested(content))
    => LET expected == VariantVertices(content, SelectedVersion(content, version))
       IN  /\ vertices = expected
           /\ \A i \in 1..Len(viewerTriangles) :
                  \A v \in {viewerTriangles[i].vertex1, viewerTriangles[i].vertex2,
                             viewerTriangles[i].vertex3} :
                      \E j \in 1..Len(expected) : expected[j] = v

\* ------------------------------------------------------------------- C13
ScriptLoaded == ScriptPath(levelInfo.levelName) \in DOMAIN files
Script == files[ScriptPath(levelInfo.levelName)]

\* the lines of the script whose OBJECT call names the model, in script order
PlacementLines(script, model) ==
    SelectSeq([n \in 1..Len(script) |-> n],
              LAMBDA n : \E j \in 1..Len(script[n]) :
                            /\ script[n][j].k \in {"OBJECT", "OBJECT_WITH_ACTS"}
                            /\ \A h \in 1..(j - 1) : script[n][h].k = "MARIO_POS"
                            /\ script[n][j].model = model)

\* the x coordinates, as written, of the placements of a model
PlacementXs(script, model) ==
    LET ls == PlacementLines(script, model)
    IN  [n \in 1..Len(ls) |->
            LET line == script[ls[n]]
                j == CHOOSE j \in 1..Len(line) :
                        /\ line[j].k # "MARIO_POS"
                        /\ \A h \in 1..(j - 1) : line[h].k = "MARIO_POS"
            IN  line[j].pos[1]]

HasPlacement(script, model) == PlacementLines(script, model) # <<>>

\* the first candidate with a placement, 0 when there is none
FirstCandidate(script, names) ==
    IF \E i \in 1..Len(names) : HasPlacement(script, names[i])
    THEN CHOOSE i \in 1..Len(names) :
            /\ HasPlacement(script, names[i])
            /\ \A h \in 1..(i - 1) : ~HasPlacement(script, names[h])
    ELSE 0

\* the x coordinates of the instances pushed by the step
PushedXs == [n \in 1..(Len(objects') - Len(objects)) |-> objects'[Len(objects) + n].position.x]

ObjectPlaced == pc = "done" /\ pc' = "objects"

C13Step ==
    ObjectPlaced =>
        LET names == PossibleModelNames(levelInfo.objects[objIdx], levelInfo.levelName)
            first == FirstCandidate(Script, names)
            xs == IF first = 0 THEN <<>> ELSE PlacementXs(Script, names[first])
        IN  /\ SubSeq(objects', 1, Len(objects)) = objects
            /\ Len(PushedXs) = Len(xs)
            /\ \A n \in 1..Len(xs) : PushedXs[n] = ParseInt(xs[n])

\* C13: the instances created for an object are the placements of the first
\* of its candidate names that has a placement in the script, in script order,
\* and none when no candidate has a placement.
C13_FirstPlacedCandidateInScriptOrder == [][C13Step]_vars

\* candidates BAR, FOO, ...: only FOO is placed, twice, and both placements
\* were used in script order
C13_Witness ==
    /\ pc = "objects"
    /\ objIdx = 2
    /\ levelInfo.levelName = "bob"
    /\ levelInfo.objects[1].script_model_name = Names(<<"BAR", "FOO">>)
    /\ DOMAIN objectPositions = {"FOO"}
    /\ Len(objects) = 2
    /\ objects[1].position.x = 1
    /\ objects[2].position.x = 0 - 2

\* ------------------------------------------------------------------- C14
\* the first descriptor-supplied name with a placement, 0 when there is none
FirstScriptModelName(script, objectDef) ==
    FirstCandidate(script, ScriptModelNames(objectDef))

C14Step ==
    (ObjectPlaced /\ FirstScriptModelName(Script, levelInfo.objects[objIdx]) # 0) =>
        LET objectDef == levelInfo.objects[objIdx]
            xs == PlacementXs(Script, ScriptModelNames(objectDef)[FirstScriptModelName(Script, objectDef)])
        IN  /\ Len(PushedXs) = Len(xs)
            /\ \A n \in 1..Len(xs) : PushedXs[n] = ParseInt(xs[n])

\* C14: in every level, when a name of the descriptor's script_model_name has
\* placements, the instances are created at the placements of the first such
\* name, whatever derived or built-in mapped name also has placements.
C14_DescriptorNamesFirst == [][C14Step]_vars

\* ------------------------------------------------------------------- C15
FileExists(objectDef) ==
    (LevelsPath \o "/" \o levelInfo.levelName \o "/" \o objectDef.collision_file) \in DOMAIN files

InCurrentArea(objectDef) ==
    \/ levelInfo.areaNumber = NoLit
    \/ objectDef.area = 0
    \/ objectDef.area = ParseInt(levelInfo.areaNumber)

\* the names of the objects an instance is expected for, one per placement
RECURSIVE ExpectedInstanceNames(_)
ExpectedInstanceNames(defs) ==
    IF defs = <<>> THEN <<>>
    ELSE LET objectDef == defs[1]
             names == PossibleModelNames(objectDef, levelInfo.levelName)
             first == FirstCandidate(Script, names)
             count == IF InCurrentArea(objectDef) /\ FileExists(objectDef) /\ first # 0
                      THEN Len(PlacementLines(Script, names[first]))
                      ELSE 0
         IN  [n \in 1..count |-> objectDef.name] \o ExpectedInstanceNames(Tail(defs))

\* C15: loadLevelObjects returns normally; an object with no placement and an
\* object whose file cannot be loaded contribute no instance, and every other
\* object of the current area has one instance per placement.
C15_MissingObjectsDoNotStopLoading ==
    /\ pc = "returned" => result = "ok"
    /\ (pc = "returned" /\ ScriptLoaded /\ levelInfo.objects # <<>>)
           => [n \in 1..Len(objects) |-> objects[n].name] = ExpectedInstanceNames(levelInfo.objects)

\* the file of the first object could not be loaded and the second object
\* was loaded and placed
C15_Witness ==
    /\ pc = "returned"
    /\ ScriptLoaded
    /\ Len(levelInfo.objects) = 2
    /\ ~FileExists(levelInfo.objects[1])
    /\ InCurrentArea(levelInfo.objects[1])
    /\ Len(objects) >= 1
    /\ objects[1].name = levelInfo.objects[2].name

\* ------------------------------------------------------------------- C16
\* the sign of y - 0.01 and of y + 0.01, computed exactly
AboveThreshold(y) == Difference(y, Divide(One, FromInt(100))).s
AboveNegatedThreshold(y) == Sum(y, Divide(One, FromInt(100))).s

Classified == entry = "MeshCreator" /\ pc = "returned"

\* C16: classifyTriangleGeometry returns exactly one of floor, ceiling and
\* wall for every normal, and which one depends only on the normal's y and the
\* threshold 0.01: floor for y > 0.01, ceiling for y < -0.01, wall otherwise,
\* so that y = 0.01 and y = -0.01 give wall.
C16_ClassByYThreshold ==
    Classified =>
        LET y == info.normal.y
        IN  /\ info.geometryType \in {"floor", "ceiling", "wall"}
            /\ info.geometryType = "floor" <=> AboveThreshold(y) = 1
            /\ info.geometryType = "ceiling" <=> AboveNegatedThreshold(y) = 0 - 1
            /\ AboveThreshold(y) = 0 \/ AboveNegatedThreshold(y) = 0
                   => info.geometryType = "wall"

\* a normal with y exactly 0.01 has been classified as wall
C16_Witness ==
    /\ Classified
    /\ AboveThreshold(info.normal.y) = 0
    /\ info.geometryType = "wall"

\* ------------------------------------------------------------------- C17
\* three coincident vertices
Coincident(t) == t.vertex1 = t.vertex2 /\ t.vertex2 = t.vertex3

UpVector == [x |-> Zero, y |-> One, z |-> Zero]

DegenerateCount(tris) == Cardinality({ i \in 1..Len(tris) : Coincident(tris[i]) })

GeometryViewLoaded == pc = "loaded" /\ viewMode = "geometry"

\* C17: a triangle of three coincident vertices gets the normal {0,1,0} and
\* the class floor wherever the program classifies it: it is coloured as a
\* floor in the geometry mesh, the info panel shows {0,1,0} and floor for it,
\* and the geometry statistics count it among the floors.
C17_DegenerateIsFloorEverywhere ==
    /\ GeometryViewLoaded =>
          /\ \A i \in 1..Len(viewerTriangles) :
                Coincident(viewerTriangles[i]) => geometryClasses[i] = "floor"
          /\ stats.floor >= DegenerateCount(viewerTriangles)
    /\ selected # NoTriangle /\ Coincident(selected) =>
          info = [normal |-> UpVector, geometryType |-> "floor"]

\* the part of C17 that holds: mesh colouring and info panel
C17_DegenerateIsFloorInMeshAndPanel ==
    /\ GeometryViewLoaded =>
          \A i \in 1..Len(viewerTriangles) :
              Coincident(viewerTriangles[i]) => geometryClasses[i] = "floor"
    /\ selected # NoTriangle /\ Coincident(selected) =>
          info = [normal |-> UpVector, geometryType |-> "floor"]

\* ------------------------------------------------------------------- C18
\* COL_VERTEX(0,0,0) COL_VERTEX(100,0,0) COL_VERTEX(0,0,100)
\* COL_TRI_INIT(SURFACE_DEFAULT,0) COL_TRI(0,1,2), one statement per line
C18Example ==
    << Text(<<Vertex(N(0), N(0), N(0))>>),
       Text(<<Vertex(Lit(FALSE, <<1, 0, 0>>), N(0), N(0))>>),
       Text(<<Vertex(N(0), N(0), Lit(FALSE, <<1, 0, 0>>))>>),
       Text(<<TriInit("SURFACE_DEFAULT")>>),
       Text(<<Tri(N(0), N(1), N(2))>>) >>

\* the example has been parsed into 3 vertices and 1 SURFACE_DEFAULT triangle
C18Parsed ==
    /\ Len(vertices) = 3
    /\ Len(viewerTriangles) = 1
    /\ viewerTriangles[1].surface_type = "SURFACE_DEFAULT"

ExampleShown == content = C18Example /\ pc = "loaded" /\ selected # NoTriangle

\* C18: the example input yields 3 vertices and 1 triangle of surface type
\* SURFACE_DEFAULT, whose bit-exact normal has a positive y component and
\* which is classified floor.
C18_ExampleIsFloor ==
    /\ content = C18Example /\ pc = "loaded" => C18Parsed
    /\ ExampleShown => info.normal.y.s = 1 /\ info.geometryType = "floor"

\* C18 as amended: the example input yields 3 vertices and 1 triangle of
\* surface type SURFACE_DEFAULT, whose bit-exact normal is {0,-1,0}, with a
\* negative y component, and which is classified ceiling in the info panel
\* and in the geometry mesh.
C18_ExampleIsCeiling ==
    /\ content = C18Example /\ pc = "loaded" => C18Parsed
    /\ ExampleShown =>
          /\ info.normal = [x |-> Zero, y |-> Negated(One), z |-> Zero]
          /\ info.geometryType = "ceiling"
    /\ content = C18Example /\ pc = "loaded" /\ viewMode = "geometry" =>
          geometryClasses = <<"ceiling">>

\* the example's triangle has been picked in geometry view
C18_Witness ==
    /\ ExampleShown
    /\ viewMode = "geometry"
    /\ info.geometryType = "ceiling"

\* ------------------------------------------------------------------- C19
\* how many triangles the mesh colours as each class
ClassCounts(classes) ==
    [c \in {"floor", "wall", "ceiling"} |->
        Cardinality({ i \in 1..Len(classes) : classes[i] = c })]

\* the class shown in the info panel is the class the picked triangle is
\* coloured by
PanelAgreesWithMesh ==
    selected # NoTriangle =>
        \A i \in 1..Len(viewerTriangles) :
            viewerTriangles[i] = selected => info.geometryType = geometryClasses[i]

\* C19: the class of a triangle is the same wherever it is derived: in
\* geometry view, the class each triangle is coloured by, the class the info
\* panel shows for it and the class getGeometryStats counts it under are
\* identical, all being derived from the bit-exact normal.
C19_OneClassAtAllCallSites ==
    GeometryViewLoaded =>
        /\ PanelAgreesWithMesh
        /\ stats = ClassCounts(geometryClasses)

\* C19 for files without a degenerate triangle
C19_OneClassOffDegenerate ==
    GeometryViewLoaded /\ DegenerateCount(viewerTriangles) = 0 =>
        /\ PanelAgreesWithMesh
        /\ stats = ClassCounts(geometryClasses)

\* the part of C19 that holds: mesh colouring and info panel agree
C19_PanelAgreesWithMesh == GeometryViewLoaded => PanelAgreesWithMesh

\* ------------------------------------------------------------------- C20
\* toFloat32 of the difference a - b subtracted as 32-bit integers
WrappedDifference(a, b) == ToFloat32(ToInt32(Difference(FromInt(a), FromInt(b))))

\* the bit-exact normal with its six edge differences wrapped to 32 bits
WrappedNormal(t) ==
    NormalOfEdges([x |-> WrappedDifference(t.vertex2.x, t.vertex1.x),
                   y |-> WrappedDifference(t.vertex2.y, t.vertex1.y),
                   z |-> WrappedDifference(t.vertex2.z, t.vertex1.z)],
                  [x |-> WrappedDifference(t.vertex3.x, t.vertex2.x),
                   y |-> WrappedDifference(t.vertex3.y, t.vertex2.y),
                   z |-> WrappedDifference(t.vertex3.z, t.vertex2.z)])

\* a difference of two coordinates of t lies outside the signed 32-bit range
Overflows(a, b) ==
    LET d == Difference(FromInt(a), FromInt(b))
    IN  ToInt32(d) # d

HasOverflowingEdge(t) ==
    \/ Overflows(t.vertex2.x, t.vertex1.x) \/ Overflows(t.vertex3.x, t.vertex2.x)
    \/ Overflows(t.vertex2.y, t.vertex1.y) \/ Overflows(t.vertex3.y, t.vertex2.y)
    \/ Overflows(t.vertex2.z, t.vertex1.z) \/ Overflows(t.vertex3.z, t.vertex2.z)

\* C20: the six edge differences of the bit-exact normal are 32-bit integer
\* subtractions of the truncated coordinates: the normal shown for a triangle
\* is the one computed from the differences wrapped modulo 2^32, also when a
\* difference exceeds the signed 32-bit range.
C20_EdgeDifferencesWrap ==
    selected # NoTriangle => info.normal = WrappedNormal(selected)

\* the part of C20 that holds: triangles whose differences fit in 32 bits
C20_EdgeDifferencesInRange ==
    selected # NoTriangle /\ ~HasOverflowingEdge(selected) =>
        info.normal = WrappedNormal(selected)

\* ------------------------------------------------------------------- C21
\* the cross product with each product rounded to float32 before the
\* subtraction
RoundedCrossProduct(d, e) ==
    Vector([c \in Axes |->
        ToFloat32(Minus(ToFloat32(Times(d[NextAxis(c)], e[NextAxis(NextAxis(c))])),
                        ToFloat32(Times(d[NextAxis(NextAxis(c))], e[NextAxis(c)]))))])

\* the magnitude with the first partial sum rounded to float32 before the
\* third square is added
RoundedMagnitude(sq) ==
    ToFloat32(MathSqrt(ToFloat32(Plus(ToFloat32(Plus(sq.x, sq.y)), sq.z))))

RoundedNormalOfCross(n) == Normalized(n, RoundedMagnitude(Squares(n)))

RoundedNormalOfVertices(v1, v2, v3) ==
    RoundedNormalOfCross(RoundedCrossProduct(EdgeDifference(v2, v1), EdgeDifference(v3, v2)))

\* the bit-exact normal with every intermediate result rounded to float32
EveryResultRounded(t) ==
    RoundedNormalOfVertices(Truncated(t.vertex1), Truncated(t.vertex2),
                            Truncated(t.vertex3))

\* C21: in the bit-exact normal computation every intermediate arithmetic
\* result (edge differences, both products of a cross-product component,
\* their difference, squares, partial sums, square root, reciprocal, scaling
\* products) is rounded to float32 before the next operation uses it: the
\* normal shown for a triangle is the one computed with every result rounded.
C21_EveryIntermediateRounded ==
    selected # NoTriangle => info.normal = EveryResultRounded(selected)

\* ------------------------------------------------------------------- C22
\* -2^31 <= x < 2^31
InInt32Range(x) ==
    /\ Less(x, [s |-> 1, m |-> <<1>>, e |-> 31])
    /\ ~Less(x, [s |-> 0 - 1, m |-> <<1>>, e |-> 31])

\* x - y is a multiple of 2^32 (a nonzero number is m * 2^e with m odd)
CongruentModulo32(x, y) == Difference(x, y).s = 0 \/ Difference(x, y).e >= 32

ToInt32Returned == entry = "toInt32" /\ pc = "returned"

\* C22: toInt32 maps every integer to the value in [-2^31, 2^31 - 1] that is
\* congruent to it modulo 2^32: it wraps rather than clamps (2^31 becomes
\* -2^31) and is the identity on values already in the signed 32-bit range.
C22_ToInt32Wraps ==
    ToInt32Returned =>
        /\ InInt32Range(info.value)
        /\ CongruentModulo32(content, info.value)
        /\ InInt32Range(content) => info.value = content
        /\ content = [s |-> 1, m |-> <<1>>, e |-> 31]
               => info.value = [s |-> 0 - 1, m |-> <<1>>, e |-> 31]

\* toInt32 has returned -2^31 for 2^31
C22_Witness ==
    /\ ToInt32Returned
    /\ content = [s |-> 1, m |-> <<1>>, e |-> 31]
    /\ info.value = [s |-> 0 - 1, m |-> <<1>>, e |-> 31]

\* ------------------------------------------------------------------- C23
\* a - b on integer coordinates, computed exactly
ExactEdge(a, b) == Vector([c \in Axes |-> Difference(FromInt(a[c]), FromInt(b[c]))])

\* the components d.y*e.z - d.z*e.y, d.z*e.x - d.x*e.z, d.x*e.y - d.y*e.x,
\* computed exactly
ExactCross(d, e) ==
    Vector([c \in Axes |->
        Difference(Product(d[NextAxis(c)], e[NextAxis(NextAxis(c))]),
                   Product(d[NextAxis(NextAxis(c))], e[NextAxis(c)]))])

\* float32 holds x exactly
IsFloat32(x) == BigBitLength(x.m) <= 24

\* float32 holds every product of a component of d with a component of e
ProductsAreFloat32(d, e) ==
    \A c \in Axes : \A b \in Axes : IsFloat32(d[c]) /\ IsFloat32(e[b])
                                       /\ IsFloat32(Product(d[c], e[b]))

\* float32 rounding is exact in the cross product of the edges d and e
RoundingIsExact(d, e) ==
    /\ ProductsAreFloat32(d, e)
    /\ \A c \in Axes : IsFloat32(ExactCross(d, e)[c])

\* the bit-exact normal from the exact cross product (v2-v1) x (v3-v2)
NormalFromSecondEdge(t) ==
    NormalOfCross(ExactCross(ExactEdge(t.vertex2, t.vertex1), ExactEdge(t.vertex3, t.vertex2)))

\* the reference normal from the exact cross product (v2-v1) x (v3-v1)
NormalFromFirstVertex(t) ==
    Normalize(ExactCross(ExactEdge(t.vertex2, t.vertex1), ExactEdge(t.vertex3, t.vertex1)))

ExactTriangleShown ==
    /\ selected # NoTriangle
    /\ RoundingIsExact(ExactEdge(selected.vertex2, selected.vertex1),
                       ExactEdge(selected.vertex3, selected.vertex2))

\* C23: the unnormalised bit-exact normal is the cross product
\* (v2-v1) x (v3-v2): for integer coordinates small enough that float32
\* rounding is exact, nx = (y2-y1)(z3-z2) - (z2-z1)(y3-y2),
\* ny = (z2-z1)(x3-x2) - (x2-x1)(z3-z2), nz = (x2-x1)(y3-y2) - (y2-y1)(x3-x2),
\* so the normal shown is that vector normalised; the reference normal is the
\* normalised cross product (v2-v1) x (v3-v1).
C23_CrossProductOfSecondEdge ==
    ExactTriangleShown =>
        /\ info.normal = NormalFromSecondEdge(selected)
        /\ CalculateTriangleNormal(selected) = NormalFromFirstVertex(selected)

\* a triangle of nonzero area with exact rounding is shown with its normal
C23_Witness ==
    /\ ExactTriangleShown
    /\ ~Coincident(selected)
    /\ info.normal # UpVector
    /\ info.normal = NormalFromSecondEdge(selected)

\* ------------------------------------------------------------------- C24
\* the object mesh's transform applied to its vertex: the rotation by the
\* mesh's Euler angles (order XYZ), then the translation by its position,
\* without any rounding of the result
MeshWorldPosition ==
    ApplyMatrix4(mesh.vertex,
                 [c \in Axes |->
                    [MakeRotationFromEuler(mesh.rotation.x, mesh.rotation.y,
                                           mesh.rotation.z)[c]
                       EXCEPT !.w = mesh.position[c]]])

\* a and b differ by less than bound
Within(a, b, bound) == Less(Difference(a, b), bound) /\ Less(Difference(b, a), bound)

\* the vectors v and w differ by less than bound in each coordinate
Agree(v, w, bound) == \A c \in Axes : Within(v[c], w[c], bound)

\* v + position
Translated(v, position) == Vector([c \in Axes |-> Sum(v[c], FromInt(position[c]))])

\* 10^-6, far above the rounding errors of the matrix arithmetic
Tolerance == Divide(One, FromInt(1000000))

Unrotated(p) == p.angleX = 0 /\ p.angleY = 0 /\ p.angleZ = 0

AtOrigin(p) == [p EXCEPT !.x = 0, !.y = 0, !.z = 0]

VertexTransformed == entry = "createMesh" /\ pc = "returned"

\* C24: the world position of an object-local vertex is the vertex rotated by
\* the placement's Euler angles (degrees converted to radians, order XYZ) and
\* then translated by the placement position: the position itself is not
\* rotated, with all angles zero the result is vertex + position, and the
\* transform used for triangle inspection gives the position the rendered
\* object mesh gives.
C24_InspectionMatchesRenderedMesh ==
    VertexTransformed =>
        /\ Agree(info.world, MeshWorldPosition, Tolerance)
        /\ Agree(info.world, Translated(TransformVertex(content.vertex, AtOrigin(content.position)), content.position), Tolerance)
        /\ Unrotated(content.position) =>
              info.world = Vector([c \in Axes |->
                                     FromInt(content.vertex[c] + content.position[c])])

\* the parts of C24 that hold: the position is not rotated, zero angles give
\* vertex + position, and inspection is within 0.005 (and the tolerance) of
\* the rendered mesh
C24_InspectionWithinDisplayRounding ==
    VertexTransformed =>
        /\ Agree(info.world, MeshWorldPosition,
                 Sum(Divide(FromInt(5), FromInt(1000)), Tolerance))
        /\ Agree(info.world, Translated(TransformVertex(content.vertex, AtOrigin(content.position)), content.position), Tolerance)
        /\ Unrotated(content.position) =>
              info.world = Vector([c \in Axes |->
                                     FromInt(content.vertex[c] + content.position[c])])

\* ------------------------------------------------------------------- C25
\* no loadLocalFile call is awaiting anything
AllLoadsFinished == \A i \in 1..Len(loads) : loads[i].at \in {"done", "failed"}

\* the last loadLocalFile call made
LastLoad == loads[Len(loads)]

\* C25: when the toggle is switched or another file is selected while an
\* earlier loadLocalFile call is still awaiting, the data the viewer finally
\* holds is that of the most recently requested file and version: once all
\* loads have finished and the last request succeeded, the viewer holds the
\* file of that request in the version the toggle selects (that file being
\* still the one selected, and no file having been given to the file input
\* meanwhile).
C25_LatestRequestWins ==
    AllLoadsFinished /\ loads # <<>> /\ LastLoad.at = "done" /\ uploads = <<>>
    /\ fileSelect = LastLoad.file =>
        viewerData = [file |-> LastLoad.file,
                      version |-> SelectedVersion(LevelFiles[LastLoad.file], selectedVersion)]

\* C25 for a single loadLocalFile call
C25_SingleRequestWins ==
    AllLoadsFinished /\ Len(loads) = 1 /\ LastLoad.at = "done" /\ uploads = <<>>
    /\ fileSelect = LastLoad.file =>
        viewerData = [file |-> LastLoad.file,
                      version |-> SelectedVersion(LevelFiles[LastLoad.file], selectedVersion)]

\* ----------------------------------------------------------- mouse events
\* The page is open, the mouse handlers are installed
\* (MeshCreator constructor: isOrbiting = false) and no gesture is going on.
InitOrbit ==
    /\ entry = "MeshCreator"
    /\ content = <<>>
    /\ version = "US"
    /\ InitLocals

\* controls 'start' listener: this.isOrbiting = true
ControlsStart ==
    /\ entry = "MeshCreator"
    /\ ~gesture
    /\ gesture' = TRUE
    /\ isOrbiting' = TRUE
    /\ UNCHANGED <<entry, content, version, pc, ppVars, parseVars, result, viewVars,
                   objVars, geoVars, selectedVersion, fileSelect, loads, viewerData, meshBuilds,
                   uploads,
                   resetTimers, mouseLog, netVars>>

\* controls 'end' listener: setTimeout(() => { this.isOrbiting = false }, 100)
ControlsEnd ==
    /\ entry = "MeshCreator"
    /\ gesture
    /\ resetTimers < MaxTimers
    /\ gesture' = FALSE
    /\ resetTimers' = resetTimers + 1
    /\ UNCHANGED <<entry, content, version, pc, ppVars, parseVars, result, viewVars,
                   objVars, geoVars, selectedVersion, fileSelect, loads, viewerData, meshBuilds,
                   uploads,
                   isOrbiting, mouseLog, netVars>>

\* the callback of one pending timer runs: this.isOrbiting = false
TimerFires ==
    /\ entry = "MeshCreator"
    /\ resetTimers > 0
    /\ resetTimers' = resetTimers - 1
    /\ isOrbiting' = FALSE
    /\ UNCHANGED <<entry, content, version, pc, ppVars, parseVars, result, viewVars,
                   objVars, geoVars, selectedVersion, fileSelect, loads, viewerData, meshBuilds,
                   uploads,
                   gesture, mouseLog, netVars>>

\* canvas listeners of 'mousemove' and 'click': if (this.isOrbiting) return;
\* otherwise updateMousePosition and handleHover / handleTriangleSelection.
\* The log keeps, for every event, whether the handler went on and whether a
\* gesture was in progress.
CanvasMouseEvent(event) ==
    /\ entry = "MeshCreator"
    /\ Len(mouseLog) < MaxMouseEvents
    /\ mouseLog' = Append(mouseLog, [event |-> event, handled |-> ~isOrbiting,
                                     gesture |-> gesture, touches |-> 0])
    /\ UNCHANGED <<entry, content, version, pc, ppVars, parseVars, result, viewVars,
                   objVars, geoVars, selectedVersion, fileSelect, loads, viewerData, meshBuilds,
                   uploads,
                   isOrbiting, gesture, resetTimers, netVars>>

\* the two mouse events of the canvas that carry the isOrbiting guard
MouseEvents == {"mousemove", "click"}

\* event.changedTouches.length of a touchend event: one finger or two
ChangedTouches == {1, 2}

\* canvas listener of 'touchend': if (!this.isOrbiting &&
\* event.changedTouches.length === 1) updateTouchPosition and
\* handleTriangleSelection
CanvasTouchEnd(changedTouches) ==
    /\ entry = "MeshCreator"
    /\ Len(mouseLog) < MaxMouseEvents
    /\ mouseLog' = Append(mouseLog, [event |-> "touchend",
                                     handled |-> ~isOrbiting /\ changedTouches = 1,
                                     gesture |-> gesture, touches |-> changedTouches])
    /\ UNCHANGED <<entry, content, version, pc, ppVars, parseVars, result, viewVars,
                   objVars, geoVars, selectedVersion, fileSelect, loads, viewerData, meshBuilds,
                   uploads,
                   isOrbiting, gesture, resetTimers, netVars>>

NextOrbit ==
    \/ ControlsStart
    \/ ControlsEnd
    \/ TimerFires
    \/ \E event \in MouseEvents : CanvasMouseEvent(event)
    \/ \E changedTouches \in ChangedTouches : CanvasTouchEnd(changedTouches)

SpecOrbit == InitOrbit /\ [][NextOrbit]_vars

\* ------------------------------------------------------------------- C26
\* C26: while an orbit gesture is in progress (after 'start', before its
\* 'end'), isOrbiting is true and no click or mousemove event reaches
\* triangle selection or hover highlighting, whatever the interleaving of
\* start and end events with the reset timers of earlier 'end' events.
C26_NoSelectionDuringGesture ==
    /\ gesture => isOrbiting
    /\ \A i \in 1..Len(mouseLog) :
          (mouseLog[i].event \in MouseEvents /\ mouseLog[i].gesture) => ~mouseLog[i].handled

\* ------------------------------------------------------------------- C27
\* the loop of preprocessVersionDirectives is about to read line p, which no
\* VERSION_JP block of the text contains
OutsideEveryJpBlock(c, p) == JpBlocks(OpenBlocks(c, p)) = {}

\* C27: before and after every iteration of the loop of
\* preprocessVersionDirectives, on any line sequence, ifDepth is not negative,
\* insideIf is true exactly when ifDepth is at least 1, and skipBlock is true
\* only while insideIf is; and when the next line is outside every VERSION_JP
\* block, skipBlock is false, so that the line is not skipped by it.
C27_DepthTracksInsideIf ==
    /\ ifDepth >= 0
    /\ insideIf <=> ifDepth >= 1
    /\ skipBlock => insideIf
    /\ (pc = "preprocess" /\ idx <= Len(content)
        /\ OutsideEveryJpBlock(content, idx)) => ~(insideIf /\ skipBlock)

\* a skipped VERSION_JP block with a nested block has been closed and the
\* loop is at a statement line after it
C27_Witness ==
    /\ pc = "preprocess"
    /\ version = "US"
    /\ Len(content) = 5
    /\ idx = 5
    /\ content[1].dir = "#ifdef VERSION_JP"
    /\ content[2].dir = "#ifdef OTHER"
    /\ content[3].dir = "#endif"
    /\ content[4].dir = "#endif"
    /\ IsPlain(content[5])
    /\ OutsideEveryJpBlock(content, idx)
    /\ ifDepth = 0
    /\ ~insideIf
    /\ ~skipBlock
    /\ processedLines = <<>>

\* ------------------------------------------------------ list of level files
\* getFallbackList(): the two hardcoded entries, by level name
GetFallbackList == <<"bob", "bitfs">>

\* what loadFromYAML ends with: it throws (library, fetch or parse failure),
\* or processLevelData returns the entries of the areas that name a
\* collision file, none included
YamlResults ==
    { [ok |-> FALSE, files |-> <<>>],
      [ok |-> TRUE, files |-> <<>>],
      [ok |-> TRUE, files |-> <<"castle_grounds">>],
      [ok |-> TRUE, files |-> <<"castle_grounds", "bob">>] }

InitList ==
    /\ entry = "LevelLoader.list"
    /\ content = <<>>
    /\ version = "US"
    /\ InitLocals

\* the place of each entry's displayName in the order of localeCompare:
\* 'Bob-omb Battlefield - ...', 'Bowser in the Fire Sea - ...',
\* 'castle_grounds - ...'
DisplayNameRank == [bob |-> 1, bitfs |-> 2, castle_grounds |-> 3]

\* one step of the sort: file goes after the entries that do not compare
\* greater (Array.prototype.sort is stable)
InsertByDisplayName(file, sorted) ==
    LET k == Cardinality({ j \in 1..Len(sorted) :
                             DisplayNameRank[sorted[j]] <= DisplayNameRank[file] })
    IN  SubSeq(sorted, 1, k) \o <<file>> \o SubSeq(sorted, k + 1, Len(sorted))

\* collisionFiles.sort((a, b) => a.displayName.localeCompare(b.displayName))
RECURSIVE SortByDisplayName(_)
SortByDisplayName(list) ==
    IF list = <<>>
    THEN <<>>
    ELSE InsertByDisplayName(list[Len(list)],
                             SortByDisplayName(SubSeq(list, 1, Len(list) - 1)))

\* the identity of the array this.collisionFiles refers to: the number of
\* assignments made to the field (0 is the array of the constructor)
CurrentArray == Cardinality({ j \in 1..Len(listCalls) : listCalls[j].yamlOk })

\* who calls getCollisionFilesList: loadLocalCollisionFiles of UIControls,
\* which hands the returned array to populateFileDropdown, or another caller
\* that only takes the list
Callers == {"loadLocalCollisionFiles", "direct"}

\* a call that has started loadFromYAML and awaits it. array is the identity
\* of the array a getCollisionFilesList call returned and options the
\* options populateFileDropdown has made of it.
AwaitingYaml(call, caller) ==
    [call |-> call, caller |-> caller, before |-> collisionFiles, fetched |-> TRUE,
     at |-> "yaml", yamlOk |-> FALSE, returned |-> <<>>, array |-> 0, options |-> <<>>]

\* where a getCollisionFilesList call is once it has returned: the
\* continuation of loadLocalCollisionFiles is still to run, or nothing is
AtAfterReturn(caller) ==
    IF caller = "loadLocalCollisionFiles" THEN "populate" ELSE "done"

\* fetchCollisionFiles() up to its await: loadFromYAML() is called
FetchCollisionFiles ==
    /\ entry = "LevelLoader.list"
    /\ Len(listCalls) < MaxListCalls
    /\ yamlLoads' = yamlLoads + 1
    /\ listCalls' = Append(listCalls, AwaitingYaml("fetchCollisionFiles", "direct"))
    /\ UNCHANGED <<entry, content, version, pc, ppVars, parseVars, result, viewVars,
                   objVars, geoVars, selectedVersion, fileSelect, loads, viewerData,
                   meshBuilds, uploads, orbitVars, retryVars, collisionFiles>>

\* getCollisionFilesList() up to its await: if (this.collisionFiles.length
\* === 0) fetchCollisionFiles() is called and awaited; otherwise
\* this.collisionFiles is returned at once
GetCollisionFilesList(caller) ==
    /\ entry = "LevelLoader.list"
    /\ Len(listCalls) < MaxListCalls
    /\ IF Len(collisionFiles) = 0
       THEN /\ yamlLoads' = yamlLoads + 1
            /\ listCalls' = Append(listCalls,
                   AwaitingYaml("getCollisionFilesList", caller))
       ELSE /\ UNCHANGED yamlLoads
            /\ listCalls' = Append(listCalls,
                   [call |-> "getCollisionFilesList", caller |-> caller,
                    before |-> collisionFiles, fetched |-> FALSE,
                    at |-> AtAfterReturn(caller), yamlOk |-> FALSE,
                    returned |-> collisionFiles, array |-> CurrentArray,
                    options |-> <<>>])
    /\ UNCHANGED <<entry, content, version, pc, ppVars, parseVars, result, viewVars,
                   objVars, geoVars, selectedVersion, fileSelect, loads, viewerData,
                   meshBuilds, uploads, orbitVars, retryVars, collisionFiles>>

\* fetchCollisionFiles() after its await: loadFromYAML has returned and
\* this.collisionFiles is assigned and returned, or it has thrown and
\* getFallbackList() is returned. A call made by getCollisionFilesList hands
\* the value to that function, which goes on in a later step.
LoadFromYAMLSettles(i, yaml) ==
    /\ entry = "LevelLoader.list"
    /\ listCalls[i].at = "yaml"
    /\ collisionFiles' = IF yaml.ok THEN yaml.files ELSE collisionFiles
    /\ listCalls' = [listCalls EXCEPT
          ![i].yamlOk = yaml.ok,
          ![i].at = IF listCalls[i].call = "fetchCollisionFiles" THEN "done" ELSE "return",
          ![i].returned = IF listCalls[i].call = "fetchCollisionFiles"
                          THEN IF yaml.ok THEN yaml.files ELSE GetFallbackList
                          ELSE <<>>]
    /\ UNCHANGED <<entry, content, version, pc, ppVars, parseVars, result, viewVars,
                   objVars, geoVars, selectedVersion, fileSelect, loads, viewerData,
                   meshBuilds, uploads, orbitVars, retryVars, yamlLoads>>

\* getCollisionFilesList() after its await: the value of fetchCollisionFiles
\* is dropped and this.collisionFiles, the array itself, is returned
GetCollisionFilesListReturns(i) ==
    /\ entry = "LevelLoader.list"
    /\ listCalls[i].at = "return"
    /\ listCalls' = [listCalls EXCEPT
          ![i].at = AtAfterReturn(listCalls[i].caller),
          ![i].returned = collisionFiles,
          ![i].array = CurrentArray]
    /\ UNCHANGED <<entry, content, version, pc, ppVars, parseVars, result, viewVars,
                   objVars, geoVars, selectedVersion, fileSelect, loads, viewerData,
                   meshBuilds, uploads, orbitVars, retryVars, collisionFiles, yamlLoads>>

\* loadLocalCollisionFiles() after its await: populateFileDropdown empties
\* the select element, which leaves the default option (value '') selected
\* once it is added, sorts the array it was given in place and makes the
\* options of it. The array is
\* this.collisionFiles of the loader unless the field has been assigned since.
PopulateFileDropdown(i) ==
    /\ entry = "LevelLoader.list"
    /\ listCalls[i].at = "populate"
    /\ collisionFiles' = IF listCalls[i].array = CurrentArray
                         THEN SortByDisplayName(collisionFiles)
                         ELSE collisionFiles
    /\ listCalls' = [listCalls EXCEPT
          ![i].at = "done",
          ![i].options = SortByDisplayName(listCalls[i].returned)]
    /\ fileSelect' = ""
    /\ UNCHANGED <<entry, content, version, pc, ppVars, parseVars, result, viewVars,
                   objVars, geoVars, selectedVersion, loads, viewerData,
                   meshBuilds, uploads, orbitVars, retryVars, yamlLoads>>

NextList ==
    \/ FetchCollisionFiles
    \/ \E caller \in Callers : GetCollisionFilesList(caller)
    \/ \E i \in 1..Len(listCalls) : \E yaml \in YamlResults : LoadFromYAMLSettles(i, yaml)
    \/ \E i \in 1..Len(listCalls) : GetCollisionFilesListReturns(i)
    \/ \E i \in 1..Len(listCalls) : PopulateFileDropdown(i)

SpecList == InitList /\ [][NextList]_vars

\* ------------------------------------------------------------------- C28
\* the call has returned to its caller
HasReturned(c) == c.at \in {"populate", "done"}

\* C28: a call of getCollisionFilesList during which the YAML configuration
\* fails to load resolves with the fallback list, which is not empty and is
\* what fetchCollisionFiles returns on failure; a call made when a non-empty
\* list is loaded returns that list without loading the YAML again.
C28_FallbackListOnYamlFailure ==
    \A i \in 1..Len(listCalls) :
        LET c == listCalls[i]
        IN  /\ (HasReturned(c) /\ c.fetched /\ ~c.yamlOk) =>
                  (c.returned = GetFallbackList /\ c.returned # <<>>)
            /\ (c.call = "getCollisionFilesList" /\ c.before # <<>>) =>
                  (~c.fetched /\ HasReturned(c) /\ c.returned = c.before)

\* the part about the cache alone
C28_LoadedListIsCached ==
    /\ yamlLoads = Cardinality({ i \in 1..Len(listCalls) : listCalls[i].fetched })
    /\ \A i \in 1..Len(listCalls) :
          (listCalls[i].call = "getCollisionFilesList" /\ listCalls[i].before # <<>>) =>
              (/\ ~listCalls[i].fetched
               /\ HasReturned(listCalls[i])
               /\ listCalls[i].returned = listCalls[i].before)

\* ------------------------------------------------------------------- C29
\* a loadLocalFile call ends in its catch block in this step
LocalLoadFails ==
    \E i \in 1..Len(loads) : loads[i].at # "failed" /\ loads'[i].at = "failed"

\* a load of FileHandler fails to download or to parse in this step: the
\* reader.onload callback of handleFileLoad ends in its catch block before
\* loadCollisionData is called, or loadSpecificFile goes to its catch block
\* or gives up. An exception thrown inside loadCollisionData (position
\* "threw") is neither.
UploadFails ==
    \E i \in 1..Len(uploads) :
        /\ uploads'[i].at # uploads[i].at
        /\ uploads'[i].at \in {"failed", "fallback"}

\* C29: a load that fails, by a rejected download or by a parse error (the
\* zero-triangle error included), in loadLocalFile or in a FileHandler load,
\* leaves the data of the viewer as it was and does not build the mesh.
C29_FailedLoadKeepsViewerData ==
    [][(LocalLoadFails \/ UploadFails) =>
          (viewerData' = viewerData /\ meshBuilds' = meshBuilds)]_vars

\* bob was loaded from the dropdown; then a level without triangles and an
\* upload whose triangle names missing vertices failed to parse, and the
\* viewer still holds bob, its mesh built once
C29_Witness ==
    /\ Len(loads) = 2
    /\ loads[1] = [file |-> "bob", at |-> "done", version |-> "US"]
    /\ loads[2] = [file |-> "empty", at |-> "failed", version |-> ""]
    /\ uploads = <<[via |-> "handleFileLoad", file |-> "notes_c",
                    from |-> "FileReader", at |-> "failed"]>>
    /\ viewerData = [file |-> "bob", version |-> "US"]
    /\ meshBuilds = 1

\* ----------------------------------------------------------- fetchWithRetry
\* what one fetch(url) ends with: a response that is ok, a 403, another
\* status that is not ok, or a rejection (network error)
FetchResults == {"ok", "403", "500", "network"}

\* the error thrown inside the try block for a result that is not ok
ErrorOf(response) ==
    CASE response = "403" -> "Rate limited"
      [] response = "500" -> "HTTP 500"
      [] response = "network" -> "network error"

\* fetchWithRetry(url, retries) is called, retries from 0 to MaxRetries.
InitRetry ==
    /\ entry = "fetchWithRetry"
    /\ content \in [retries : 0..MaxRetries]
    /\ version = "US"
    /\ InitLocals

\* the loop condition i < retries: the next iteration begins with
\* await this.delay(this.requestDelay); when the condition is false the
\* function ends without a return statement and the promise resolves with
\* undefined
LoopTest(i) ==
    IF i < content.retries
    THEN /\ pc' = "delay"
         /\ UNCHANGED outcome
    ELSE /\ pc' = "returned"
         /\ outcome' = [state |-> "resolved", value |-> "undefined"]

\* fetchWithRetry(url, retries) is called and runs up to its first await
CallFetchWithRetry ==
    /\ entry = "fetchWithRetry"
    /\ pc = "start"
    /\ LoopTest(attempt)
    /\ UNCHANGED <<entry, content, version, ppVars, parseVars, result, viewVars,
                   objVars, geoVars, selectedVersion, fileSelect, loads, viewerData,
                   meshBuilds, uploads, orbitVars, listVars, attempt, fetched, responses>>

\* the timer of delay(requestDelay) fires: fetch(url) is called and awaited
RequestDelayEnds ==
    /\ entry = "fetchWithRetry"
    /\ pc = "delay"
    /\ fetched' = fetched + 1
    /\ pc' = "fetch"
    /\ UNCHANGED <<entry, content, version, ppVars, parseVars, result, viewVars,
                   objVars, geoVars, selectedVersion, fileSelect, loads, viewerData,
                   meshBuilds, uploads, orbitVars, listVars, attempt, outcome, responses>>

\* the fetch settles: an ok response is returned; a 403 before the last
\* iteration waits delay(1000 * (i + 1)) and continues, and at the last
\* iteration throws; any error is caught, rethrown at the last iteration
\* (i === retries - 1) and otherwise followed by delay(1000 * (i + 1))
FetchSettles(response) ==
    /\ entry = "fetchWithRetry"
    /\ pc = "fetch"
    /\ responses' = Append(responses, response)
    /\ IF response = "ok"
       THEN /\ outcome' = [state |-> "resolved", value |-> "ok"]
            /\ pc' = "returned"
       ELSE IF attempt = content.retries - 1
       THEN /\ outcome' = [state |-> "rejected", value |-> ErrorOf(response)]
            /\ pc' = "returned"
       ELSE /\ pc' = "backoff"
            /\ UNCHANGED outcome
    /\ UNCHANGED <<entry, content, version, ppVars, parseVars, result, viewVars,
                   objVars, geoVars, selectedVersion, fileSelect, loads, viewerData,
                   meshBuilds, uploads, orbitVars, listVars, attempt, fetched>>

\* the timer of delay(1000 * (i + 1)) fires: i++ and the loop condition
BackoffEnds ==
    /\ entry = "fetchWithRetry"
    /\ pc = "backoff"
    /\ attempt' = attempt + 1
    /\ LoopTest(attempt + 1)
    /\ UNCHANGED <<entry, content, version, ppVars, parseVars, result, viewVars,
                   objVars, geoVars, selectedVersion, fileSelect, loads, viewerData,
                   meshBuilds, uploads, orbitVars, listVars, fetched, responses>>

NextRetry ==
    \/ CallFetchWithRetry
    \/ RequestDelayEnds
    \/ \E response \in FetchResults : FetchSettles(response)
    \/ BackoffEnds

SpecRetry == InitRetry /\ [][NextRetry]_vars

\* ------------------------------------------------------------------- C30
\* the requests made so far and how the call ended agree with the claim
RetriesUntilFirstOk ==
    /\ fetched <= content.retries
    /\ fetched = Len(responses) + (IF pc = "fetch" THEN 1 ELSE 0)
    /\ \A i \in 1..Len(responses) - 1 : responses[i] # "ok"
    /\ (pc # "returned" /\ responses # <<>>) => responses[Len(responses)] # "ok"
    /\ (pc = "returned" /\ outcome.state = "resolved" /\ responses # <<>>) =>
          (responses[Len(responses)] = "ok" /\ outcome.value = "ok")
    /\ (pc = "returned" /\ outcome.state = "rejected") =>
          (/\ responses # <<>>
           /\ responses[Len(responses)] # "ok"
           /\ outcome.value = ErrorOf(responses[Len(responses)]))

\* C30: fetchWithRetry(url, retries) makes at most retries requests, stops at
\* the first ok response and resolves with it, goes on after a 403, another
\* non-ok status or a network error, and for every value of retries ends by
\* resolving with an ok response or rejecting with the last error: it never
\* resolves without a response.
C30_ResolvesOnlyWithResponse ==
    /\ RetriesUntilFirstOk
    /\ pc = "returned" =>
          \/ outcome = [state |-> "resolved", value |-> "ok"]
          \/ outcome.state = "rejected"

\* C30 for calls with retries of at least 1
C30_PositiveRetries ==
    content.retries >= 1 =>
        /\ RetriesUntilFirstOk
        /\ pc = "returned" =>
              \/ outcome = [state |-> "resolved", value |-> "ok"]
              \/ outcome.state = "rejected"

====
